---- MODULE Spec2Model ----
(***************************************************************************)
(* A model of the agent control loop of ransomware.agent: run_agent        *)
(* (src/src/agent.py), the browser session BrowserManager with its launch  *)
(* retries and its action dispatcher (src/src/managers/browser_manager.py),*)
(* the action handlers (src/src/actions), the plan clean-up of LLMManager  *)
(* and the history of PlanningManager.                                     *)
(*                                                                         *)
(* One step of the model is the code between two awaits.  Every external   *)
(* call (browser, LLM, database) returns or raises: its outcome is chosen  *)
(* with \E.  Closing the browser and stopping the driver (the two awaits   *)
(* of BrowserManager.exit) are taken to return normally.                   *)
(*                                                                         *)
(* Python values: None is the string "None"; True and False as results of  *)
(* handlers are the strings "True" and "False"; a dict is a record (a      *)
(* function from its keys); a str produced by the LLM is a sequence of     *)
(* tokens; a list is a sequence.                                           *)
(***************************************************************************)
EXTENDS Integers, Sequences, FiniteSets, TLC

(***************************************************************************)
(* Bounds of the model.                                                    *)
(***************************************************************************)
\* the largest step budget (max_steps) a run is started with
MaxSteps == 2

(***************************************************************************)
(* Program constants.                                                      *)
(***************************************************************************)
\* browser_manager.py:48   retries = 5
retries == 5
\* wait.py:3   timeout=20000
DefaultWaitTimeout == 20000
\* actionContext.py:76   the timeout of the documented wait example
ExampleWaitTimeout == 15000

None == "None"

\* the runs of run_agent that can be under way in the process
Runs == {"A", "B"}

VARIABLES
    active,        \* the runs started in this behaviour
    instance,      \* BrowserManager._instance: the run whose manager it is, or None
    pc,            \* per run: the position of run_agent
    max_steps,     \* per run: the max_steps argument
    steps,         \* per run: the local steps of run_agent
    bmBound,       \* per run: the local bm of run_agent is bound
    playwright,    \* per run: bm._playwright, None or "driver"
    browser,       \* per run: bm._browser, None or "open"
    attempt,       \* per run: the loop variable of BrowserManager.start
    launches,      \* per run: how many times _launch_browser was entered
    lastAttempt,   \* per run: how the last launch-and-navigate attempt ended
    lastBmOp,      \* per run: the last lifecycle call made on bm
    url,           \* per run: bm._page.url
    plan,          \* per run: the plan text of the current step and the step it is of
    actions,       \* per run: the list given to bm.execute
    idx,           \* per run: the position of the for loop of BrowserManager.execute
    results,       \* per run: the local results of BrowserManager.execute
    calls,         \* per run: the handler invocations of the current batch
    history,       \* per run: pm.historical_actions
    exitCause,     \* per run: why the loop was left
    result         \* per run: what run_agent returned

\* the LLM gateway (src/src/managers/llm_manager.py)
VARIABLES
    provider,      \* the provider LLMManager selected: "deepseek" or "gemini"
    genPc,         \* the position of provider.generate
    genAttempt,    \* DeepSeekProvider.generate: the loop variable attempt
    genLog,        \* the request attempts and the sleeps of the current call, in order
    genMethod,     \* the method of LLMManager the call was made through
    genCalls,      \* how many calls of llm_request were made
    genResult      \* what generate returned or raised

\* chunk_text (src/src/actions/scrape_and_store.py, BrowserManager.chunk_text)
VARIABLES
    chunkText,     \* the argument text
    chunkSize,     \* the argument size
    chunkPc,       \* the position of chunk_text
    chunkStep,     \* the local step
    chunkStart,    \* the loop variable start
    chunks,        \* the local chunks
    chunkOffsets   \* the value of start at which each element of chunks was cut

\* VectorStoreManager.store_entry_with_embedding
\* (src/src/managers/vector_store_manager.py)
VARIABLES
    storePc,          \* the position of store_entry_with_embedding
    storeThreshold,   \* the argument similarity_threshold, in hundredths
    storeHasText,     \* create_searchable_text(entry) is not blank
    storeCandidates,  \* what the $vectorSearch stage yields for the entry
    storeSearch,      \* how the similarity search ended
    storeSimilar,     \* the local similar
    storeWrites,      \* the documents the call inserted into the corpus
    storeResult       \* what the call returned

\* scrape_and_store.run (src/src/actions/scrape_and_store.py)
VARIABLES
    sessionStore,  \* sessions_collection: how many records each text_hash of the url has
    corpus,        \* victims_collection: how many embedded documents each fact has
    scrapePc,      \* the position of the current call of run
    scrapeCall,    \* how many calls of run were made
    scrapeReturn,  \* what the body of the async with block returns or raises
    scrapeCalls,   \* per call: text_hash, what it did and what it returned
    tasks,         \* per call and chunk: the position of process_chunk_with_semaphore
    semaphore      \* per call: the value of its asyncio.Semaphore

\* the parsing of an extraction response: call_llm lines 58-71,
\* fix_partial_json and the loop of process_chunk
\* (src/src/actions/scrape_and_store.py)
VARIABLES
    respText,      \* call_llm: the local result, the cleaned text of the response
    parsePc,       \* the position of call_llm after the response is received
    parsed,        \* call_llm: the local parsed
    parseRepaired, \* call_llm: the local repaired
    entriesLoop,   \* process_chunk: how the for loop over chunk_entries went
    fixPc,         \* the position of a call of fix_partial_json on the text
    fixOut         \* what that call returned

\* one BrowserManager and the calls of its _launch_browser and exit
\* (src/src/managers/browser_manager.py)
VARIABLES
    lcPlaywright,  \* self._playwright: None or "driver"
    lcBrowser,     \* self._browser: None or "open"
    lcInstance,    \* BrowserManager._instance: None or "self"
    lcLastLaunch,  \* how the last launch-and-navigate attempt went
    lcLaunches,    \* how many times _launch_browser was called
    lcCloses,      \* calls of self._browser.close() since the last launch
    lcStops,       \* calls of self._playwright.stop() since the last launch
    lcExits        \* calls of exit() in a row, since the construction or the last launch

\* one call of map_actions_to_results (src/src/utils/map_actions_to_results.py)
VARIABLES
    keyBatch,    \* actions: the descriptors, each as the items it was written with
    keyResults,  \* results
    keyPc,       \* "idle", "called", "returned"
    keyOut       \* what the call gave: raised, or the dict with its keys in order

agentVars == <<active, instance, pc, max_steps, steps, bmBound, playwright, browser,
               attempt, launches, lastAttempt, lastBmOp, url, plan, actions, idx,
               results, calls, history, exitCause, result>>

llmVars == <<provider, genPc, genAttempt, genLog, genMethod, genCalls, genResult>>

chunkVars == <<chunkText, chunkSize, chunkPc, chunkStep, chunkStart, chunks,
               chunkOffsets>>

storeVars == <<storePc, storeThreshold, storeHasText, storeCandidates,
               storeSearch, storeSimilar, storeWrites, storeResult>>

scrapeVars == <<sessionStore, corpus, scrapePc, scrapeCall, scrapeReturn,
                scrapeCalls, tasks, semaphore>>

keyVars == <<keyBatch, keyResults, keyPc, keyOut>>

lifeVars == <<lcPlaywright, lcBrowser, lcInstance, lcLastLaunch, lcLaunches,
              lcCloses, lcStops, lcExits>>

parseVars == <<respText, parsePc, parsed, parseRepaired, entriesLoop, fixPc, fixOut>>

\* the variables outside run_agent
libVars == <<llmVars, chunkVars, storeVars, scrapeVars, parseVars, lifeVars, keyVars>>

vars == <<agentVars, libVars>>

bmVars == <<instance, bmBound, playwright, browser, attempt, launches,
            lastAttempt, lastBmOp>>
stepVars == <<url, plan, actions, idx, results, calls, history>>

(***************************************************************************)
(* Python helpers.                                                         *)
(***************************************************************************)
\* dict.get(key, default)
Get(d, key, default) == IF key \in DOMAIN d THEN d[key] ELSE default

\* the empty dict {}
EmptyDict == [k \in {} |-> None]

\* truthiness of a str or None, and of a dict
TruthyStr(s) == s # None /\ s # ""
TruthyDict(d) == DOMAIN d # {}

(***************************************************************************)
(* The text of an LLM response, as a sequence of tokens, and the values    *)
(* ast.literal_eval makes of it.                                           *)
(***************************************************************************)
Tok(t) == [tok |-> t]
LBracket == Tok("[")
RBracket == Tok("]")
\* the code fences of Markdown: the opening one with its language tag, and the bare one
FenceJson == Tok("fence_json")
Fence == Tok("fence")
Space == Tok(" ")
Junk == Tok("junk")
Number == Tok("42")
\* the text of a dict literal that evaluates to the mapping d
DictText(d) == [tok |-> "dict", d |-> d]

\* the Python values a plan evaluates to
PyDict(d) == [type |-> "dict", v |-> d]
PyInt == [type |-> "int"]
PyStr(s) == [type |-> "str", v |-> s]
IsMapping(x) == x.type = "dict"

\* the numbers of a descriptor: the int n, and the float n.0
IntValue(n) == [type |-> "int", n |-> n]
FloatValue(n) == [type |-> "float", n |-> n]

\* the action descriptors the planner is given as examples
ClickNext == [action |-> "click", selector |-> "a.next"]
WaitResultsTimeout ==
    [action |-> "wait", selector |-> "div.results",
     params |-> [timeout |-> IntValue(ExampleWaitTimeout)]]
\* the same descriptor with its timeout written as 15000.0
WaitResultsFloat ==
    [action |-> "wait", selector |-> "div.results",
     params |-> [timeout |-> FloatValue(ExampleWaitTimeout)]]
WaitResults == [action |-> "wait", selector |-> "div.results"]
EnterQuery ==
    [action |-> "enter_text", selector |-> "input#q", params |-> [text |-> "q"]]
ScrapeAndStore == [action |-> "scrape_and_store"]
HandleDialog == [action |-> "handle_dialog"]
ExtractHtml == [action |-> "extract_html", selector |-> ".files"]

\* the texts the planner's LLM may answer with
PlanResponses ==
    { <<>>,
      <<Space>>,
      <<LBracket, RBracket>>,
      <<FenceJson, LBracket, RBracket, Fence>>,
      <<Junk>>,
      <<LBracket, DictText(ClickNext), Junk>>,
      <<Number>>,
      <<DictText(ClickNext)>>,
      <<LBracket, DictText(ClickNext), Number, RBracket>>,
      <<LBracket, DictText(ClickNext), Number, DictText(WaitResults), RBracket>>,
      <<LBracket, DictText(WaitResults), RBracket>>,
      <<FenceJson, LBracket, DictText(ClickNext), DictText(WaitResultsTimeout),
        DictText(EnterQuery), RBracket, Fence>>,
      <<LBracket, DictText(ScrapeAndStore), DictText(HandleDialog),
        DictText(ExtractHtml), RBracket>>,
      <<LBracket, DictText(ExtractHtml), DictText(HandleDialog),
        DictText(ClickNext), RBracket>> }

\* str.strip(): leading and trailing white space removed
RECURSIVE LStrip(_)
LStrip(s) == IF s # <<>> /\ Head(s) = Space THEN LStrip(Tail(s)) ELSE s
RECURSIVE RStrip(_)
RStrip(s) ==
    IF s # <<>> /\ s[Len(s)] = Space THEN RStrip(SubSeq(s, 1, Len(s) - 1)) ELSE s
Strip(s) == RStrip(LStrip(s))

\* LLMManager.clean_llm_json: both code fences replaced by '', then strip()
IsNotFence(t) == t # FenceJson /\ t # Fence
clean_llm_json(s) == Strip(SelectSeq(s, IsNotFence))

\* the value of one element of a list display
ItemValue(t) == IF t.tok = "dict" THEN PyDict(t.d) ELSE PyInt
IsItem(t) == t.tok \in {"dict", "42"}

\* ast.literal_eval(text): raised, or the value (a list with its items, or a
\* value that is no list)
literal_eval(s) ==
    LET inner == SubSeq(s, 2, Len(s) - 1)
    IN  IF Len(s) >= 2 /\ s[1] = LBracket /\ s[Len(s)] = RBracket
           /\ \A i \in DOMAIN inner : IsItem(inner[i])
        THEN [raised |-> FALSE, isList |-> TRUE,
              items |-> [i \in DOMAIN inner |-> ItemValue(inner[i])]]
        ELSE IF Len(s) = 1 /\ IsItem(s[1])
        THEN [raised |-> FALSE, isList |-> FALSE, items |-> <<>>]
        ELSE [raised |-> TRUE, isList |-> FALSE, items |-> <<>>]

(***************************************************************************)
(* The action dispatcher: BrowserManager.execute and the handlers.         *)
(***************************************************************************)
\* BrowserManager._actions: the names of the dispatch table
ActionTable ==
    {"enter_text", "press_key", "wait", "click", "scroll_to", "handle_dialog",
     "scrape_and_store"}

\* the names of the table whose module exists under src/actions
\* (there is no src/actions/handle_dialog.py)
ModulesPresent ==
    {"enter_text", "press_key", "wait", "click", "scroll_to", "scrape_and_store"}

\* the parameters of each handler's run after page: those without a default
\* and those with one
HandlerParams(name) ==
    CASE name = "click" -> [required |-> {"selector"}, optional |-> {}]
      [] name = "scroll_to" -> [required |-> {"selector"}, optional |-> {}]
      [] name = "enter_text" -> [required |-> {"selector", "text"}, optional |-> {}]
      [] name = "press_key" -> [required |-> {"selector", "key"}, optional |-> {}]
      [] name = "wait" -> [required |-> {"selector"}, optional |-> {"timeout"}]
      [] OTHER -> [required |-> {}, optional |-> {}]

\* what a handler that was entered can do: return a value or raise
HandlerOutcomes(name) ==
    IF name = "wait" THEN {"True", "TimeoutError"} ELSE {"True", "False", "Error"}
EnvOutcomes == {"True", "False", "Error", "TimeoutError"}

\* the outcome of one action of a batch: the value returned, or the exception
Returned(v) == [exc |-> "none", value |-> v]
Raised(e) == [exc |-> e, value |-> None]

\* execute, lines 68-80: the positional and the keyword arguments of the call
BuildCall(action) ==
    LET name == Get(action, "action", None)
        selector == Get(action, "selector", None)
        params == Get(action, "params", EmptyDict)
        paramsOrEmpty == IF TruthyDict(params) THEN params ELSE EmptyDict
    IN  IF name = "wait" /\ TruthyStr(selector)
        THEN [name |-> name, args |-> <<selector>>, kwargs |-> EmptyDict]
        ELSE IF TruthyStr(selector)
        THEN [name |-> name, args |-> <<selector>>, kwargs |-> paramsOrEmpty]
        ELSE [name |-> name, args |-> <<>>, kwargs |-> paramsOrEmpty]

\* mod.run(self._page, *args, **kwargs): the call binds to the signature
BindOK(call) ==
    LET sig == HandlerParams(call.name)
        positional == IF call.args # <<>> THEN {"selector"} ELSE {}
        given == positional \cup DOMAIN call.kwargs
    IN  /\ Len(call.args) <= 1
        /\ positional \cap DOMAIN call.kwargs = {}
        /\ sig.required \subseteq given
        /\ given \subseteq sig.required \cup sig.optional

\* wait.run(page, selector, timeout=20000): the timeout the handler waits with
WaitTimeout(call) ==
    IF "timeout" \in DOMAIN call.kwargs THEN call.kwargs.timeout.n
    ELSE DefaultWaitTimeout

\* vector_store_manager.py:45  __aexit__(self) takes no exception arguments
AexitAcceptsExcInfo == FALSE

\* scrape_and_store.run: the body runs inside "async with VectorStoreManager";
\* leaving the block calls __aexit__ with three arguments
ContextExit(inner) ==
    IF AexitAcceptsExcInfo THEN inner ELSE Raised("TypeError")

\* execute, lines 86-98: what the try block of one action produces, env being
\* what the handler does once it is entered
TryAction(call, env) ==
    IF call.name \notin ActionTable THEN Raised("KeyError")
    ELSE IF call.name \notin ModulesPresent THEN Raised("ModuleNotFoundError")
    ELSE IF call.name = "scrape_and_store"
    THEN ContextExit(IF env \in {"True", "False"} THEN Returned(env) ELSE Raised(env))
    ELSE IF ~BindOK(call) THEN Raised("TypeError")
    ELSE IF env \in {"True", "False"} THEN Returned(env) ELSE Raised(env)

\* the handler of the table was entered with the call
HandlerEntered(call) ==
    /\ call.name \in ModulesPresent
    /\ call.name # "scrape_and_store" => BindOK(call)

\* a handler that catches the errors of the look-up and of the call binding
\* only, and lets the errors raised inside a handler pass
CaughtByExecute_LookupOnly(exc) ==
    exc \in {"KeyError", "ModuleNotFoundError", "TypeError"}

\* a handler that re-raises the timeout of a wait
CaughtByExecute_NotTimeout(exc) ==
    exc \in {"KeyError", "ModuleNotFoundError", "TypeError", "Error"}

\* a try block around the call of the handler only: the errors of the
\* look-up in the table and of the import leave execute
CaughtByExecute_HandlerOnly(exc) ==
    exc \in {"TypeError", "Error", "TimeoutError"}

\* execute, line 99: except Exception catches every exception class of the try
CaughtByExecute(exc) ==
    exc \in {"KeyError", "ModuleNotFoundError", "TypeError", "Error", "TimeoutError"}

\* an except branch that records nothing for the failed action
AppendResult_DropFailure(res, outcome) ==
    IF outcome.exc = "none" THEN Append(res, outcome.value) ELSE res

\* execute, lines 93, 98, 102: results after the action's outcome
AppendResult(res, outcome) ==
    IF outcome.exc = "none" THEN Append(res, outcome.value) ELSE Append(res, None)

(***************************************************************************)
(* Result keying and the history.                                          *)
(***************************************************************************)
\* the keys of the descriptors and of their params, in sorted order
SortedKeys == <<"action", "key", "params", "selector", "text", "timeout">>

RECURSIVE KeysIn(_, _)
KeysIn(d, n) ==
    IF n = 0 THEN <<>>
    ELSE IF SortedKeys[n] \in DOMAIN d
         THEN Append(KeysIn(d, n - 1), SortedKeys[n])
         ELSE KeysIn(d, n - 1)

\* the fields whose value is a number
NumberFields == {"timeout"}

\* the text of a number that drops the fraction of a float
NumberText_Digits(x) == [digits |-> x.n, fraction |-> ""]

\* json.dumps of a number: the repr of the int, or of the float (15000.0)
NumberText(x) ==
    [digits |-> x.n, fraction |-> IF x.type = "float" THEN ".0" ELSE ""]

\* json.dumps of a scalar: a number by its repr, a string by its characters
DumpsScalar(k, x) == IF k \in NumberFields THEN NumberText(x) ELSE x

\* json.dumps of a flat dict with sort_keys=True: its items in key order
DumpsFlat(d) ==
    LET ks == KeysIn(d, Len(SortedKeys))
    IN  [i \in DOMAIN ks |-> <<ks[i], DumpsScalar(ks[i], d[ks[i]])>>]

\* action_key_str: json.dumps(action, sort_keys=True, ...)
action_key_str(a) ==
    LET ks == KeysIn(a, Len(SortedKeys))
    IN  [i \in DOMAIN ks |->
            IF ks[i] = "params" THEN <<ks[i], DumpsFlat(a[ks[i]])>>
            ELSE <<ks[i], a[ks[i]]>>]

\* the keys of the descriptors of a batch, in the order of the batch
BatchKeys(acts) == [i \in DOMAIN acts |-> action_key_str(acts[i].v)]

\* the keys of a dict built from pairs with these keys, in insertion order: a
\* repeated key keeps its first position
RECURSIVE KeyOrder(_, _)
KeyOrder(keys, n) ==
    IF n = 0 THEN <<>>
    ELSE IF \E j \in 1..(n - 1) : keys[j] = keys[n]
         THEN KeyOrder(keys, n - 1)
         ELSE Append(KeyOrder(keys, n - 1), keys[n])

\* the value a dict comprehension leaves under key k: that of the last pair
LastValue(keys, res, k) ==
    res[CHOOSE i \in DOMAIN keys :
            keys[i] = k /\ \A j \in DOMAIN keys : keys[j] = k => j <= i]

\* {action_key_str(a): r for a, r in zip(actions, results)}
DictOfPairs(keys, order, res) ==
    [raised |-> FALSE, keys |-> order,
     value |-> [i \in DOMAIN order |-> LastValue(keys, res, order[i])]]

\* map_actions_to_results(actions, results, strict=True)
map_actions_to_results(acts, res) ==
    IF Len(acts) # Len(res) THEN [raised |-> TRUE, keys |-> <<>>, value |-> <<>>]
    ELSE DictOfPairs(BatchKeys(acts), KeyOrder(BatchKeys(acts), Len(acts)), res)

\* PlanningManager.update_history(url, actions): one HistoryContext for each
\* element the for loop draws from its second argument; run_agent passes the
\* dict, whose iteration yields its keys
update_history(hist, u, mapped) ==
    hist \o [i \in DOMAIN mapped.keys |->
                [locationURL |-> u, action_mapped_results |-> PyStr(mapped.keys[i])]]

\* a dict display {k1: v1, k2: v2, ...}: the mapping of its items; of two
\* items with the same key the later one stays
Item(k, x) == [k |-> k, v |-> x]
DictOf(items) ==
    [k \in {items[i].k : i \in DOMAIN items} |->
        items[CHOOSE i \in DOMAIN items :
                 items[i].k = k /\ \A j \in DOMAIN items : items[j].k = k => j <= i].v]

\* the longest batch given to one call of map_actions_to_results
MaxBatch == 2

\* descriptors as they may be written: the same wait with its fields in two
\* orders, with the timeout as an int and as a float, and a click
WrittenDescriptors ==
    { <<Item("action", "wait"), Item("selector", "div.results"),
        Item("params", [timeout |-> IntValue(ExampleWaitTimeout)])>>,
      <<Item("params", [timeout |-> IntValue(ExampleWaitTimeout)]),
        Item("selector", "div.results"), Item("action", "wait")>>,
      <<Item("action", "wait"), Item("selector", "div.results"),
        Item("params", [timeout |-> FloatValue(ExampleWaitTimeout)])>>,
      <<Item("action", "click"), Item("selector", "a.next")>>,
      <<Item("selector", "a.next"), Item("action", "click")>> }

\* the lists of at most n elements of S
ListsUpTo(S, n) == UNION {[1..k -> S] : k \in 0..n}

\* no call of map_actions_to_results was made
NoMapping == [raised |-> FALSE, keys |-> <<>>, value |-> <<>>]
KeyIdle ==
    /\ keyBatch = <<>>
    /\ keyResults = <<>>
    /\ keyPc = "idle"
    /\ keyOut = NoMapping

\* the dicts the descriptors of the batch evaluate to
KeyActions == [i \in DOMAIN keyBatch |-> PyDict(DictOf(keyBatch[i]))]

\* map_actions_to_results(actions, results): the whole call
MapActions ==
    /\ keyPc = "called"
    /\ keyOut' = map_actions_to_results(KeyActions, keyResults)
    /\ keyPc' = "returned"
    /\ UNCHANGED <<keyBatch, keyResults>>

(***************************************************************************)
(* The arguments and the result of run_agent.                              *)
(***************************************************************************)
IntArg(n) == [isNone |-> FALSE, n |-> n]
NoneArg == [isNone |-> TRUE, n |-> 0]
\* max_steps: an int, or None as api.py passes it when the request has none
StepArgs == {IntArg(n) : n \in -1..MaxSteps} \cup {NoneArg}

Pending == [kind |-> "pending", status |-> "", steps_ran |-> 0]
\* a record that reports the iterations before the last one
Complete_OneLess(n) == [kind |-> "returned", status |-> "complete", steps_ran |-> n - 1]
\* return {"status": "complete", "steps_ran": steps}
Complete(n) == [kind |-> "returned", status |-> "complete", steps_ran |-> n]
\* the function ends without a return statement
ReturnedNone == [kind |-> "none", status |-> "", steps_ran |-> 0]
\* an exception leaves run_agent
Propagated == [kind |-> "raised", status |-> "", steps_ran |-> 0]

StartUrls == {"", "http://site.onion"}
Urls == {"http://site.onion", "http://site.onion/page2"}
Models == {"deepseek-chat", "gemini-2.5-flash", "gpt-4o-mini"}

\* ProviderFactory.infer_provider_from_model: by the prefix of the model name
infer_provider_from_model(model) ==
    CASE model = "deepseek-chat" -> "deepseek"
      [] model = "gemini-2.5-flash" -> "gemini"
      [] OTHER -> ""

\* LLMManager.__init__ raises ValueError: no provider, or no API key
LLMManagerRaises(model, hasKey) ==
    infer_provider_from_model(model) = "" \/ ~hasKey

(***************************************************************************)
(* The LLM gateway: LLMManager.llm_request and the providers' generate.    *)
(***************************************************************************)
\* the largest number of calls of llm_request in one behaviour
MaxRequests == 2

\* llm_manager.py:36   max_retries = 3
max_retries == 3

Providers == {"deepseek", "gemini"}

\* the methods of LLMManager that end in llm_request
GatewayMethods == {"llm_request", "get_llm_plan", "get_formatted_json"}

\* how one client.post with raise_for_status can end
PostOutcomes == {"ok", "ReadTimeout", "HTTPStatusError", "ConnectError"}

\* how one generate_content of the Gemini client can end
GeminiOutcomes == {"ok", "DeadlineExceeded", "Error"}

\* the exceptions that are a transient timeout of the request
TransientTimeouts == {"ReadTimeout", "DeadlineExceeded"}

AttemptEvent(n, outcome) == [kind |-> "attempt", n |-> n, outcome |-> outcome]
SleepEvent(seconds) == [kind |-> "sleep", n |-> seconds, outcome |-> ""]

\* a retry test that also holds for the last attempt
ShouldRetry_Inclusive(n) == n <= max_retries

\* DeepSeekProvider.generate line 44: attempt < max_retries
ShouldRetry(n) == n < max_retries

\* DeepSeekProvider.generate line 45: the seconds slept after attempt n
Backoff(n) == 2 * n

\* no call of llm_request is under way
GenIdle(p) ==
    /\ provider = p
    /\ genPc = "idle"
    /\ genAttempt = 0
    /\ genLog = <<>>
    /\ genMethod = ""
    /\ genCalls = 0
    /\ genResult = "pending"

\* LLMManager.llm_request (also through get_llm_plan, get_formatted_json):
\* provider.generate is entered
LlmRequest ==
    /\ genPc \in {"idle", "done"}
    /\ genCalls < MaxRequests
    /\ \E m \in GatewayMethods : genMethod' = m
    /\ genCalls' = genCalls + 1
    /\ genPc' = "request"
    /\ genAttempt' = 1
    /\ genLog' = <<>>
    /\ genResult' = "pending"
    /\ UNCHANGED provider

\* DeepSeekProvider.generate lines 37-49: one pass of the for loop up to the
\* return, the raise or the sleep
DeepSeekPost ==
    /\ provider = "deepseek"
    /\ genPc = "request"
    /\ \E outcome \in PostOutcomes :
          /\ genLog' = Append(genLog, AttemptEvent(genAttempt, outcome))
          /\ IF outcome = "ok"
             THEN genPc' = "done" /\ genResult' = "returned"
             ELSE IF outcome = "ReadTimeout" /\ ShouldRetry(genAttempt)
             THEN genPc' = "sleeping" /\ UNCHANGED genResult
             ELSE \* raise in either handler, or an exception no handler names
                  genPc' = "done" /\ genResult' = outcome
    /\ UNCHANGED <<provider, genAttempt, genMethod, genCalls>>

\* DeepSeekProvider.generate line 45 and the next turn of the for loop: the
\* sleep returns; when range(1, max_retries + 1) is exhausted the function
\* ends without a return statement
DeepSeekSleep ==
    /\ provider = "deepseek"
    /\ genPc = "sleeping"
    /\ genLog' = Append(genLog, SleepEvent(Backoff(genAttempt)))
    /\ genAttempt' = genAttempt + 1
    /\ IF genAttempt + 1 <= max_retries
       THEN genPc' = "request" /\ UNCHANGED genResult
       ELSE genPc' = "done" /\ genResult' = "None"
    /\ UNCHANGED <<provider, genMethod, genCalls>>

\* GeminiProvider.generate lines 69-72: one run of _generate_sync in the
\* executor, whose result or exception is the result of generate
GeminiGenerate ==
    /\ provider = "gemini"
    /\ genPc = "request"
    /\ \E outcome \in GeminiOutcomes :
          /\ genLog' = Append(genLog, AttemptEvent(genAttempt, outcome))
          /\ genResult' = IF outcome = "ok" THEN "returned" ELSE outcome
    /\ genPc' = "done"
    /\ UNCHANGED <<provider, genAttempt, genMethod, genCalls>>

(***************************************************************************)
(* The chunker: chunk_text(text, size).                                    *)
(***************************************************************************)
\* the longest text and the largest size chunk_text is called with
MaxTextLen == 12
MaxChunkSize == 11

Alphabet == {"a", "b"}
Texts == UNION {[1..n -> Alphabet] : n \in 0..MaxTextLen}
ChunkSizes == 0..MaxChunkSize

\* chunk_text line 12: step = int(size * 0.9); for size >= 0 the product
\* in double precision truncates to the integer part of 9 * size / 10
StepOf(size) == (9 * size) \div 10

\* chunk_text line 14: text[a:b] for 0 <= a <= b
Slice(t, a, b) ==
    SubSeq(t, a + 1, IF b < Len(t) THEN b ELSE Len(t))

\* a test that lets the loop go on when the chunk ends exactly at the end
BreakTest_Strict(start, size, len) == start + size > len

\* chunk_text line 17: start + size >= len(text)
BreakTest(start, size, len) == start + size >= len

\* a loop that moves on by the whole size, leaving no overlap
NextStart_NoOverlap(start, step, size) == start + size

\* chunk_text line 13: the next element of range(0, len(text), step)
NextStart(start, step, size) == start + step

\* chunk_text is not being called
ChunkIdle ==
    /\ chunkText = <<>>
    /\ chunkSize = 0
    /\ chunkPc = "idle"
    /\ chunkStep = 0
    /\ chunkStart = 0
    /\ chunks = <<>>
    /\ chunkOffsets = <<>>

\* chunk_text lines 11-13: chunks = [], step, and range(0, len(text), step),
\* which raises ValueError when step is 0
ChunkEnter ==
    /\ chunkPc = "called"
    /\ chunkStep' = StepOf(chunkSize)
    /\ chunkPc' = IF StepOf(chunkSize) = 0 THEN "raised" ELSE "loop"
    /\ UNCHANGED <<chunkText, chunkSize, chunkStart, chunks, chunkOffsets>>

\* chunk_text lines 13-18: one pass of the for loop
ChunkPass ==
    /\ chunkPc = "loop"
    /\ chunkStart < Len(chunkText)
    /\ LET chunk == Slice(chunkText, chunkStart, chunkStart + chunkSize)
       IN  /\ chunks' = IF chunk # <<>> THEN Append(chunks, chunk) ELSE chunks
           /\ chunkOffsets' = IF chunk # <<>> THEN Append(chunkOffsets, chunkStart)
                                              ELSE chunkOffsets
    /\ IF BreakTest(chunkStart, chunkSize, Len(chunkText))
       THEN chunkPc' = "returned" /\ UNCHANGED chunkStart
       ELSE /\ chunkStart' = NextStart(chunkStart, chunkStep, chunkSize)
            /\ UNCHANGED chunkPc
    /\ UNCHANGED <<chunkText, chunkSize, chunkStep>>

\* chunk_text lines 13, 19: the range is exhausted and chunks is returned
ChunkReturn ==
    /\ chunkPc = "loop"
    /\ chunkStart >= Len(chunkText)
    /\ chunkPc' = "returned"
    /\ UNCHANGED <<chunkText, chunkSize, chunkStep, chunkStart, chunks,
                   chunkOffsets>>

(***************************************************************************)
(* The similarity deduplicator: store_entry_with_embedding.  A similarity  *)
(* score is an integer number of hundredths.                               *)
(***************************************************************************)
\* vector_store_manager.py:135   similarity_threshold: float = 0.85
DefaultThreshold == 85

\* vector_store_manager.py:126   limit: int = 3
SearchLimit == 3

\* the thresholds the call is made with, and the scores of corpus members
Thresholds == {DefaultThreshold, 92}
Scores == {70, DefaultThreshold - 1, DefaultThreshold, 92}

\* a corpus member with its vectorSearchScore
Candidate(id, score) == [id |-> id, score |-> score]

\* vector_search lines 89-95: the $vectorSearch stage yields at most limit
\* members of the corpus, the nearest first
CandidateLists ==
    UNION {{[i \in 1..n |-> Candidate(i, f[i])] :
                f \in {g \in [1..n -> Scores] :
                          \A i \in 1..n, j \in 1..n : i < j => g[i] >= g[j]}} :
           n \in 0..SearchLimit}

\* a match that leaves out a score equal to the threshold
Qualifies_Strict(score, threshold) == score > threshold

\* vector_search line 112: {"$match": {"score": {"$gte": threshold}}}
Qualifies(score, threshold) == score >= threshold

\* vector_search lines 87-115: the pipeline applied to what the first stage
\* yields
vector_search(cands, threshold) ==
    LET Keep(c) == Qualifies(c.score, threshold)
    IN  SelectSeq(cands, Keep)

\* a choice of the last element of similar
Top_Last(similar) == similar[Len(similar)]

\* store_entry_with_embedding line 140: top = similar[0]
Top(similar) == similar[1]

StorePending == [kind |-> "pending", stored |-> FALSE, entry |-> 0, similarity_score |-> 0]
\* line 141: {'stored': False, 'entry': top, 'similarity_score': top.get('score', 0.0)}
Reused(top) ==
    [kind |-> "returned", stored |-> FALSE, entry |-> top.id,
     similarity_score |-> top.score]
\* lines 152, 159: {'stored': True, 'entry': ..., 'similarity_score': None}
StoredNew ==
    [kind |-> "returned", stored |-> TRUE, entry |-> 0, similarity_score |-> 0]
StoreRaised == [kind |-> "raised", stored |-> FALSE, entry |-> 0, similarity_score |-> 0]

\* store_entry_with_embedding is not being called
StoreIdle ==
    /\ storePc = "idle"
    /\ storeThreshold = DefaultThreshold
    /\ storeHasText = TRUE
    /\ storeCandidates = <<>>
    /\ storeSearch = "none"
    /\ storeSimilar = <<>>
    /\ storeWrites = <<>>
    /\ storeResult = StorePending

\* store_entry_with_embedding lines 137-141: normalize_entry and
\* find_similar_entries (no search for a blank text; an exception inside
\* vector_search gives []; a failing embedder raises), then the test of similar
StoreFindSimilar ==
    /\ storePc = "called"
    /\ \E how \in {"ok", "search_failed", "embed_failed"} :
          LET searched == IF storeHasText THEN how ELSE "skipped"
              similar == IF searched = "ok"
                         THEN vector_search(storeCandidates, storeThreshold)
                         ELSE <<>>
          IN  /\ storeSearch' = searched
              /\ storeSimilar' = similar
              /\ IF searched = "embed_failed"
                 THEN storePc' = "fallback" /\ UNCHANGED storeResult
                 ELSE IF similar # <<>>
                 THEN storePc' = "done" /\ storeResult' = Reused(Top(similar))
                 ELSE storePc' = "insert" /\ UNCHANGED storeResult
    /\ UNCHANGED <<storeThreshold, storeHasText, storeCandidates, storeWrites>>

\* store_entry_with_embedding lines 143-152: the entry is embedded and
\* inserted; the embedder or the insert may raise
StoreInsert ==
    /\ storePc = "insert"
    /\ \/ /\ storeWrites' = Append(storeWrites, [embedded |-> TRUE])
          /\ storeResult' = StoredNew
          /\ storePc' = "done"
       \/ /\ storePc' = "fallback"
          /\ UNCHANGED <<storeWrites, storeResult>>
    /\ UNCHANGED <<storeThreshold, storeHasText, storeCandidates, storeSearch,
                   storeSimilar>>

\* a fallback document that carries an embedding
FallbackDoc_Embedded == [embedded |-> TRUE]

\* store_entry_with_embedding line 156: insert_one(entry), the entry as
\* normalize_entry left it, without the keys embedding and searchable_text
FallbackDoc == [embedded |-> FALSE]

\* store_entry_with_embedding lines 154-159: the raw entry is inserted
StoreFallback ==
    /\ storePc = "fallback"
    /\ \/ /\ storeWrites' = Append(storeWrites, FallbackDoc)
          /\ storeResult' = StoredNew
       \/ /\ storeResult' = StoreRaised
          /\ UNCHANGED storeWrites
    /\ storePc' = "done"
    /\ UNCHANGED <<storeThreshold, storeHasText, storeCandidates, storeSearch,
                   storeSimilar>>

(***************************************************************************)
(* The extraction pipeline: scrape_and_store.run, process_chunk and the    *)
(* semaphore.  One step is the code of one coroutine between two awaits.   *)
(***************************************************************************)
\* the largest number of calls of run, and of chunks of one page
MaxCalls == 2
MaxChunks == 3

\* scrape_and_store.py:154   asyncio.Semaphore(2)
SemaphoreSlots == 2

\* the sha256 digests of the page text, and the facts the LLM extracts
Hashes == {"h1", "h2"}
Facts == {"acme"}

CallIds == 1..MaxCalls
ChunkIds == 1..MaxChunks
TaskIds == CallIds \X ChunkIds

\* process_chunk lines 77-78: None for a neighbour that does not exist
NoChunk == 0

\* a context that has a next chunk at the end of the list too
NextChunk_PastEnd(i, n) == i + 1

\* process_chunk line 77: chunks[i - 1] if i > 0 else None (chunks are
\* counted from 1 here)
PrevChunk(i) == IF i > 1 THEN i - 1 ELSE NoChunk
\* process_chunk line 78: chunks[i + 1] if i < (len(chunks) - 1) else None
NextChunk(i, n) == IF i < n THEN i + 1 ELSE NoChunk

NoTask == [pc |-> "absent", entry |-> "", prev |-> NoChunk, next |-> NoChunk]
\* the coroutine of a chunk before it holds the semaphore
WaitingTask == [pc |-> "waiting", entry |-> "", prev |-> NoChunk, next |-> NoChunk]
NoCall == [hash |-> "", recorded |-> FALSE, chunks |-> 0, llm |-> 0, writes |-> 0,
           entries |-> <<>>, result |-> Raised("pending")]

\* process_chunk is running for the task: LLM call, parsing, deduplication
InFlightPcs == {"llm", "search", "insert"}
InFlight == {t \in TaskIds : tasks[t].pc \in InFlightPcs}

\* a semaphore whose slot stays taken when the holder raises
ReleaseOnRaise_Kept(value) == value

\* process_chunk_with_semaphore line 157: async with semaphore releases the
\* slot when the block is left by an exception
ReleaseOnRaise(value) == value + 1

\* asyncio.Semaphore.acquire returns at once while the value is positive
CanAcquire(value) == value > 0

\* the score of a corpus document for an entry of the same fact: the
\* searchable texts are equal, so the cosine similarity is 1
SameFactScore == 100

\* what the $vectorSearch stage yields for an entry of fact f
CorpusCandidates(f) ==
    IF corpus[f] > 0 THEN <<Candidate(1, SameFactScore)>> ELSE <<>>

\* a write that replaces the documents of its key by the new one
InsertOne_Overwrite(n) == 1

\* insert_one (scrape_and_store.py:145, vector_store_manager.py:147): the
\* collection, which held n documents of the key, holds one more
InsertOne(n) == n + 1

\* no call of run was made
ScrapeIdle ==
    /\ sessionStore = [h \in Hashes |-> 0]
    /\ corpus = [f \in Facts |-> 0]
    /\ scrapePc = "idle"
    /\ scrapeCall = 0
    /\ scrapeReturn = Raised("pending")
    /\ scrapeCalls = [c \in CallIds |-> NoCall]
    /\ tasks = [t \in TaskIds |-> NoTask]
    /\ semaphore = [c \in CallIds |-> 0]

\* run lines 122-132: the vector store is entered, the page text is read,
\* cleaned and hashed; reading the page may raise inside the block
ScrapeEnter ==
    /\ scrapePc \in {"idle", "done"}
    /\ scrapeCall < MaxCalls
    /\ scrapeCall' = scrapeCall + 1
    /\ \E h \in Hashes :
          scrapeCalls' = [scrapeCalls EXCEPT ![scrapeCall + 1] = [NoCall EXCEPT !.hash = h]]
    /\ \/ scrapePc' = "lookup" /\ scrapeReturn' = Raised("pending")
       \/ scrapePc' = "exit" /\ scrapeReturn' = Raised("Error")
    /\ UNCHANGED <<sessionStore, corpus, tasks, semaphore>>

\* run lines 134-137: find_one and the early return
ScrapeLookup ==
    /\ scrapePc = "lookup"
    /\ LET existing == sessionStore[scrapeCalls[scrapeCall].hash] > 0
       IN  \/ /\ existing
              /\ scrapeReturn' = Returned("False")
              /\ scrapePc' = "exit"
           \/ /\ ~existing
              /\ scrapePc' = "record"
              /\ UNCHANGED scrapeReturn
           \/ \* find_one raises
              /\ scrapeReturn' = Raised("Error")
              /\ scrapePc' = "exit"
    /\ UNCHANGED <<sessionStore, corpus, scrapeCall, scrapeCalls, tasks, semaphore>>

\* run lines 140-168: the session record is inserted, the text is chunked,
\* the semaphore and one task for each chunk are created and gather is awaited
ScrapeRecord ==
    /\ scrapePc = "record"
    /\ sessionStore' = [sessionStore EXCEPT ![scrapeCalls[scrapeCall].hash] = InsertOne(@)]
    /\ \E n \in 0..MaxChunks :
          /\ scrapeCalls' = [scrapeCalls EXCEPT ![scrapeCall].recorded = TRUE,
                                                 ![scrapeCall].chunks = n]
          /\ tasks' = [t \in TaskIds |->
                          IF t[1] = scrapeCall
                          THEN IF t[2] <= n THEN WaitingTask
                               ELSE NoTask
                          ELSE tasks[t]]
    /\ semaphore' = [semaphore EXCEPT ![scrapeCall] = SemaphoreSlots]
    /\ scrapePc' = "gather"
    /\ UNCHANGED <<corpus, scrapeCall, scrapeReturn>>

\* process_chunk_with_semaphore line 157 and process_chunk lines 76-81:
\* async with semaphore is entered, the neighbours of the chunk are taken
\* from the list, and call_llm sends its request
TaskAcquire(t) ==
    /\ tasks[t].pc = "waiting"
    /\ CanAcquire(semaphore[t[1]])
    /\ semaphore' = [semaphore EXCEPT ![t[1]] = @ - 1]
    /\ tasks' = [tasks EXCEPT ![t] =
                    [pc |-> "llm", entry |-> "",
                     prev |-> PrevChunk(t[2]),
                     next |-> NextChunk(t[2], scrapeCalls[t[1]].chunks)]]
    /\ scrapeCalls' = [scrapeCalls EXCEPT ![t[1]].llm = @ + 1]
    /\ UNCHANGED <<sessionStore, corpus, scrapePc, scrapeCall, scrapeReturn>>

\* call_llm lines 56-71 and process_chunk lines 83-89: the response is
\* parsed into no entry or one entry, or the request raises and the block of
\* the semaphore is left
TaskLLM(t) ==
    /\ tasks[t].pc = "llm"
    /\ \/ /\ tasks' = [tasks EXCEPT ![t].pc = "done"]
          /\ semaphore' = [semaphore EXCEPT ![t[1]] = @ + 1]
       \/ /\ \E f \in Facts : tasks' = [tasks EXCEPT ![t].pc = "search", ![t].entry = f]
          /\ UNCHANGED semaphore
       \/ /\ tasks' = [tasks EXCEPT ![t].pc = "failed"]
          /\ semaphore' = [semaphore EXCEPT ![t[1]] = ReleaseOnRaise(@)]
    /\ UNCHANGED <<sessionStore, corpus, scrapePc, scrapeCall, scrapeReturn,
                   scrapeCalls>>

\* store_entry_with_embedding lines 137-141, called from process_chunk: the
\* similarity search reads the corpus as it is now
TaskSearch(t) ==
    /\ tasks[t].pc = "search"
    /\ LET similar == vector_search(CorpusCandidates(tasks[t].entry), DefaultThreshold)
       IN  IF similar # <<>>
           THEN /\ tasks' = [tasks EXCEPT ![t].pc = "done"]
                /\ semaphore' = [semaphore EXCEPT ![t[1]] = @ + 1]
           ELSE /\ tasks' = [tasks EXCEPT ![t].pc = "insert"]
                /\ UNCHANGED semaphore
    /\ UNCHANGED <<sessionStore, corpus, scrapePc, scrapeCall, scrapeReturn,
                   scrapeCalls>>

\* store_entry_with_embedding lines 143-159: insert_one of the new document;
\* when it raises and the insert of the fallback raises as well, the call
\* raises and process_chunk with it
TaskInsert(t) ==
    /\ tasks[t].pc = "insert"
    /\ \/ /\ corpus' = [corpus EXCEPT ![tasks[t].entry] = InsertOne(@)]
          /\ scrapeCalls' = [scrapeCalls EXCEPT ![t[1]].writes = @ + 1]
          /\ tasks' = [tasks EXCEPT ![t].pc = "done"]
          /\ semaphore' = [semaphore EXCEPT ![t[1]] = @ + 1]
       \/ /\ tasks' = [tasks EXCEPT ![t].pc = "failed"]
          /\ semaphore' = [semaphore EXCEPT ![t[1]] = ReleaseOnRaise(@)]
          /\ UNCHANGED <<corpus, scrapeCalls>>
    /\ UNCHANGED <<sessionStore, scrapePc, scrapeCall, scrapeReturn>>

\* process_chunk line 104: the list of results of the task of a chunk
TaskResults(t) ==
    IF tasks[t].entry # "" THEN <<[chunk |-> t[2], entry |-> tasks[t].entry]>> ELSE <<>>

\* a gather that yields the results of the last awaitable first
GatherOrder_Reversed(n) == [i \in 1..n |-> n + 1 - i]

\* run lines 167-169: gather yields the results in the order of the
\* awaitables it was given, range(len(chunks))
GatherOrder(n) == [i \in 1..n |-> i]

\* run line 172: entries = [item for sublist in all_entries for item in sublist]
RECURSIVE Flatten(_, _, _)
Flatten(c, order, k) ==
    IF k = 0 THEN <<>>
    ELSE Flatten(c, order, k - 1) \o TaskResults(<<c, order[k]>>)

\* run lines 167-181: gather raises the first exception of a task, leaving
\* the other tasks running, or returns when every task is done; the results
\* are then flattened
ScrapeGather ==
    /\ scrapePc = "gather"
    /\ LET mine == {t \in TaskIds : t[1] = scrapeCall /\ tasks[t].pc # "absent"}
           n == scrapeCalls[scrapeCall].chunks
           entries == Flatten(scrapeCall, GatherOrder(n), n)
       IN  \/ /\ \E t \in mine : tasks[t].pc = "failed"
              /\ scrapeReturn' = Raised("Error")
              /\ UNCHANGED scrapeCalls
           \/ /\ \A t \in mine : tasks[t].pc = "done"
              /\ scrapeCalls' = [scrapeCalls EXCEPT ![scrapeCall].entries = entries]
              /\ scrapeReturn' =
                    IF entries # <<>> THEN Returned("True") ELSE Returned("False")
    /\ scrapePc' = "exit"
    /\ UNCHANGED <<sessionStore, corpus, scrapeCall, tasks, semaphore>>

\* run line 122: the async with block is left and __aexit__ is called
ScrapeExit ==
    /\ scrapePc = "exit"
    /\ scrapeCalls' = [scrapeCalls EXCEPT ![scrapeCall].result = ContextExit(scrapeReturn)]
    /\ scrapePc' = "done"
    /\ UNCHANGED <<sessionStore, corpus, scrapeCall, scrapeReturn, tasks, semaphore>>

(***************************************************************************)
(* The parsing of an extraction response.  A JSON text is a sequence of    *)
(* the tokens "[", "]", "{", "}" and ",", of "k" (a member with a scalar   *)
(* value), "p" (a member name with its colon, the value follows), "n" (a   *)
(* scalar: a number, null, true or false), " " (white space) and "x" (text *)
(* that is no JSON).  The value json.loads makes of a text is the text     *)
(* without its white space.                                                *)
(***************************************************************************)
\* the longest text of arbitrary tokens
MaxJsonLen == 4

JsonTokens == {"[", "]", "{", "}", ",", "k", "p", "n", " ", "x"}

\* the documents an extraction answers with: a list of entries, a single
\* entry, an entry with a nested object, a list laid out with white space
JsonDocuments ==
    { <<"[", "{", "k", "}", ",", "{", "k", ",", "k", "}", "]">>,
      <<"{", "k", ",", "k", "}">>,
      <<"[", "{", "p", "{", "k", "}", "}", ",", "{", "k", "}", "]">>,
      <<" ", "[", " ", "{", "k", "}", " ", "]", " ">>,
      <<" ", "{", "k", "}">> }

\* what follows a document when the model goes on talking
JsonTails == { <<"x">>, <<" ", "x">>, <<",">>, <<"]", "x">>, <<",", "{", "k">>,
               <<"n">>, <<"]">> }

\* the cleaned response texts: every short text, every document, cut at any
\* point or followed by a tail
ResponseTexts ==
    UNION {[1..n -> JsonTokens] : n \in 0..MaxJsonLen}
    \cup UNION {{SubSeq(d, 1, n) : n \in 0..Len(d)} : d \in JsonDocuments}
    \cup {d \o t : d \in JsonDocuments, t \in JsonTails}

IsNotJsonSpace(t) == t # " "
\* str.strip() of a JSON text
RECURSIVE JsonLStrip(_)
JsonLStrip(s) == IF s # <<>> /\ Head(s) = " " THEN JsonLStrip(Tail(s)) ELSE s
RECURSIVE JsonRStrip(_)
JsonRStrip(s) ==
    IF s # <<>> /\ s[Len(s)] = " "
    THEN JsonRStrip(SubSeq(s, 1, Len(s) - 1)) ELSE s
JsonStrip(s) == JsonRStrip(JsonLStrip(s))

\* the JSON grammar on a text without white space: the position after the
\* value, the members of an object, the items of an array that start at i,
\* or 0 when there is none
RECURSIVE ValueEnd(_, _), MembersEnd(_, _, _), ItemsEnd(_, _, _)
ValueEnd(s, i) ==
    IF i > Len(s) THEN 0
    ELSE IF s[i] = "n" THEN i + 1
    ELSE IF s[i] = "{" THEN MembersEnd(s, i + 1, TRUE)
    ELSE IF s[i] = "[" THEN ItemsEnd(s, i + 1, TRUE)
    ELSE 0
MembersEnd(s, i, first) ==
    IF i > Len(s) THEN 0
    ELSE IF first /\ s[i] = "}" THEN i + 1
    ELSE LET e == IF s[i] = "k" THEN i + 1
                  ELSE IF s[i] = "p" THEN ValueEnd(s, i + 1)
                  ELSE 0
         IN  IF e = 0 \/ e > Len(s) THEN 0
             ELSE IF s[e] = "}" THEN e + 1
             ELSE IF s[e] = "," THEN MembersEnd(s, e + 1, FALSE)
             ELSE 0
ItemsEnd(s, i, first) ==
    IF i > Len(s) THEN 0
    ELSE IF first /\ s[i] = "]" THEN i + 1
    ELSE LET e == ValueEnd(s, i)
         IN  IF e = 0 \/ e > Len(s) THEN 0
             ELSE IF s[e] = "]" THEN e + 1
             ELSE IF s[e] = "," THEN ItemsEnd(s, e + 1, FALSE)
             ELSE 0

\* Python values made by json.loads
JsonNone == [none |-> TRUE, text |-> <<>>]
JsonStr(s) == [none |-> FALSE, text |-> s]
JsonValue(v) == [raised |-> FALSE, value |-> v]
JsonRaised == [raised |-> TRUE, value |-> <<>>]
EmptyList == <<"[", "]">>
IsDict(v) == v # <<>> /\ v[1] = "{"
IsList(v) == v # <<>> /\ v[1] = "["

\* json.loads(s): white space is skipped, the whole text must be one value;
\* json.loads(None) raises TypeError
json_loads(s) ==
    IF s.none THEN JsonRaised
    ELSE LET t == SelectSeq(s.text, IsNotJsonSpace)
         IN  IF t # <<>> /\ ValueEnd(t, 1) = Len(t) + 1
             THEN JsonValue(t) ELSE JsonRaised

\* str.rfind of the closing brace, counted from 1; 0 when there is none
RFindBrace(s) ==
    IF \E i \in DOMAIN s : s[i] = "}"
    THEN CHOOSE i \in DOMAIN s : s[i] = "}" /\ \A j \in DOMAIN s : s[j] = "}" => j <= i
    ELSE 0

StartsWith(s, t) == s # <<>> /\ s[1] = t
EndsWith(s, t) == s # <<>> /\ s[Len(s)] = t
Count(s, t) == Cardinality({i \in DOMAIN s : s[i] = t})

\* a repair that cuts the text before its last closing brace
Truncate_BeforeBrace(s, last_brace) == SubSeq(s, 1, last_brace - 1)

\* fix_partial_json line 31: repaired = s[:last_brace+1]
Truncate(s, last_brace) == SubSeq(s, 1, last_brace)

\* fix_partial_json lines 28-37
fix_partial_json(s) ==
    LET last_brace == RFindBrace(s)
        repaired == Truncate(s, last_brace)
    IN  IF last_brace = 0 THEN JsonNone
        ELSE IF StartsWith(JsonStrip(repaired), "{")
        THEN JsonStr(<<"[">> \o repaired \o <<"]">>)
        ELSE IF Count(repaired, "[") > 0 /\ ~EndsWith(JsonStrip(repaired), "]")
        THEN JsonStr(repaired \o <<"]">>)
        ELSE JsonStr(repaired)

\* call_llm lines 60-61: a single object becomes a one-element list
Normalize(v) == IF IsDict(v) THEN <<"[">> \o v \o <<"]">> ELSE v

\* call_llm was not called
ParseIdle ==
    /\ respText = <<>>
    /\ parsePc = "idle"
    /\ parsed = <<>>
    /\ parseRepaired = JsonNone
    /\ entriesLoop = "none"
    /\ fixPc = "idle"
    /\ fixOut = JsonNone

\* call_llm lines 58-63: the strict parse
CallLlmStrict ==
    /\ parsePc = "received"
    /\ LET strict == json_loads(JsonStr(respText))
       IN  IF strict.raised
           THEN parsePc' = "repair" /\ UNCHANGED parsed
           ELSE parsePc' = "returned" /\ parsed' = Normalize(strict.value)
    /\ UNCHANGED <<respText, parseRepaired, entriesLoop, fixPc, fixOut>>

\* call_llm lines 64-71: the repair and the second parse
CallLlmRepair ==
    /\ parsePc = "repair"
    /\ LET repaired == fix_partial_json(respText)
           again == json_loads(repaired)
       IN  /\ parseRepaired' = repaired
           /\ parsed' = IF again.raised THEN EmptyList ELSE again.value
    /\ parsePc' = "returned"
    /\ UNCHANGED <<respText, entriesLoop, fixPc, fixOut>>

\* process_chunk lines 81-85: enumerate(chunk_entries) raises TypeError for
\* a value that is not iterable
ProcessEntries ==
    /\ parsePc = "returned"
    /\ entriesLoop' = IF IsList(parsed) THEN "iterated" ELSE "TypeError"
    /\ parsePc' = "done"
    /\ UNCHANGED <<respText, parsed, parseRepaired, fixPc, fixOut>>

\* fix_partial_json called on the text
FixPartialJson ==
    /\ fixPc = "called"
    /\ fixOut' = fix_partial_json(respText)
    /\ fixPc' = "done"
    /\ UNCHANGED <<respText, parsePc, parsed, parseRepaired, entriesLoop>>

(***************************************************************************)
(* The lifecycle of one BrowserManager: _launch_browser and exit, with the *)
(* calls exit makes on the browser and on the driver.                      *)
(***************************************************************************)
\* the largest number of launches, and of calls of exit in a row
MaxLaunches == 5
MaxExits == 5

\* how a launch-and-navigate attempt of start can go: the driver does not
\* start, the browser does not launch, the page times out, or all is well
LaunchResults == {"driver_failed", "launch_failed", "timeout", "ok"}

\* an exit that keeps the handle of the browser it has closed
AfterClose_Kept == "open"

\* exit line 177: self._browser = None
AfterClose == None

\* the manager is constructed and nothing was launched
LifeIdle ==
    /\ lcPlaywright = None
    /\ lcBrowser = None
    /\ lcInstance = "self"
    /\ lcLastLaunch = "none"
    /\ lcLaunches = 0
    /\ lcCloses = 0
    /\ lcStops = 0
    /\ lcExits = 0

\* start lines 41-52: _launch_browser and goto; both handles are None when
\* it is called, at the first attempt and after the exit of a retry
LaunchBrowser ==
    /\ lcLaunches < MaxLaunches
    /\ lcPlaywright = None /\ lcBrowser = None
    /\ \E res \in LaunchResults :
          /\ lcLastLaunch' = res
          /\ lcPlaywright' = IF res = "driver_failed" THEN None ELSE "driver"
          /\ lcBrowser' = IF res \in {"driver_failed", "launch_failed"} THEN None ELSE "open"
    /\ lcLaunches' = lcLaunches + 1
    /\ lcCloses' = 0
    /\ lcStops' = 0
    /\ lcExits' = 0
    /\ UNCHANGED lcInstance

\* BrowserManager.exit lines 174-181
BmExit ==
    /\ lcExits < MaxExits
    /\ IF lcBrowser # None
       THEN lcCloses' = lcCloses + 1 /\ lcBrowser' = AfterClose
       ELSE UNCHANGED <<lcCloses, lcBrowser>>
    /\ IF lcPlaywright # None
       THEN lcStops' = lcStops + 1 /\ lcPlaywright' = None
       ELSE UNCHANGED <<lcStops, lcPlaywright>>
    /\ lcInstance' = None
    /\ lcExits' = lcExits + 1
    /\ UNCHANGED <<lcLastLaunch, lcLaunches>>

(***************************************************************************)
(* Initial states.                                                         *)
(***************************************************************************)
InitRun ==
    /\ instance = None
    /\ pc = [r \in Runs |-> "new_llm"]
    /\ steps = [r \in Runs |-> 0]
    /\ bmBound = [r \in Runs |-> FALSE]
    /\ playwright = [r \in Runs |-> None]
    /\ browser = [r \in Runs |-> None]
    /\ attempt = [r \in Runs |-> 0]
    /\ launches = [r \in Runs |-> 0]
    /\ lastAttempt = [r \in Runs |-> "none"]
    /\ lastBmOp = [r \in Runs |-> "none"]
    /\ url = [r \in Runs |-> None]
    /\ plan = [r \in Runs |-> [step |-> 0, text |-> <<>>]]
    /\ actions = [r \in Runs |-> <<>>]
    /\ idx = [r \in Runs |-> 1]
    /\ results = [r \in Runs |-> <<>>]
    /\ calls = [r \in Runs |-> <<>>]
    /\ history = [r \in Runs |-> <<>>]
    /\ exitCause = [r \in Runs |-> "none"]
    /\ result = [r \in Runs |-> Pending]

\* one call of run_agent
Init ==
    /\ active = {"A"}
    /\ \E m \in StepArgs : max_steps = [r \in Runs |-> m]
    /\ InitRun
    /\ GenIdle("deepseek")
    /\ ChunkIdle
    /\ StoreIdle
    /\ ScrapeIdle
    /\ ParseIdle
    /\ LifeIdle
    /\ KeyIdle

(***************************************************************************)
(* BrowserManager: construction, start with its retries, exit.             *)
(***************************************************************************)
\* BrowserManager.exit
exit(r) ==
    /\ browser' = [browser EXCEPT ![r] = None]
    /\ playwright' = [playwright EXCEPT ![r] = None]
    /\ instance' = None
    /\ lastBmOp' = [lastBmOp EXCEPT ![r] = "exit"]

\* run_agent line 21: llm = LLMManager(model=model)
CreateLLM(r) ==
    /\ pc[r] = "new_llm"
    /\ \E model \in Models, hasKey \in BOOLEAN :
          IF LLMManagerRaises(model, hasKey)
          THEN /\ pc' = [pc EXCEPT ![r] = "outer_except"]
               /\ exitCause' = [exitCause EXCEPT ![r] = "outer_error"]
          ELSE /\ pc' = [pc EXCEPT ![r] = "new_bm"]
               /\ UNCHANGED exitCause
    /\ UNCHANGED <<active, max_steps, steps, bmVars, stepVars, result>>

\* run_agent lines 24-30 and BrowserManager.__init__
CreateBM(r) ==
    /\ pc[r] = "new_bm"
    /\ \E start_url \in StartUrls :
          IF start_url = "" \/ instance # None
          THEN \* ValueError, or RuntimeError: bm stays unbound
               /\ pc' = [pc EXCEPT ![r] = "outer_except"]
               /\ exitCause' = [exitCause EXCEPT ![r] = "outer_error"]
               /\ UNCHANGED <<bmVars, url>>
          ELSE /\ instance' = r
               /\ bmBound' = [bmBound EXCEPT ![r] = TRUE]
               /\ lastBmOp' = [lastBmOp EXCEPT ![r] = "init"]
               /\ pc' = [pc EXCEPT ![r] = "start_launch"]
               /\ UNCHANGED <<playwright, browser, attempt, launches,
                              lastAttempt, url, exitCause>>
    /\ UNCHANGED <<active, max_steps, steps, plan, actions, idx, results, calls,
                   history, result>>

\* a comparison that is off by one: no attempt of range(retries) is the last
IsLastAttempt_OffByOne(n) == n = retries

\* start line 57: the attempt was the last one of range(retries)
IsLastAttempt(n) == n = retries - 1

\* the stages of _launch_browser, in order, and the handles set once a stage
\* has returned
LaunchStages == <<"playwright_start", "chromium_launch", "new_page">>
PlaywrightAfter(failedAt) == IF failedAt > 1 THEN "driver" ELSE None
BrowserAfter(failedAt) == IF failedAt > 2 THEN "open" ELSE None

\* start lines 49-51: the next attempt of the for loop enters _launch_browser,
\* which returns, times out or fails in one of its stages
StartLaunch(r) ==
    /\ pc[r] = "start_launch"
    /\ IF attempt[r] >= retries
       THEN \* range(retries) is exhausted: start returns
            /\ pc' = [pc EXCEPT ![r] = "loop_head"]
            /\ UNCHANGED <<bmVars, url, exitCause>>
       ELSE /\ launches' = [launches EXCEPT ![r] = @ + 1]
            /\ lastBmOp' = [lastBmOp EXCEPT ![r] = "launch"]
            /\ \/ /\ playwright' = [playwright EXCEPT ![r] = "driver"]
                  /\ browser' = [browser EXCEPT ![r] = "open"]
                  /\ pc' = [pc EXCEPT ![r] = "start_goto"]
                  /\ lastAttempt' = [lastAttempt EXCEPT ![r] = "running"]
                  /\ UNCHANGED exitCause
               \/ \E i \in DOMAIN LaunchStages, e \in {"TimeoutError", "Error"} :
                     /\ playwright' = [playwright EXCEPT ![r] = PlaywrightAfter(i)]
                     /\ browser' = [browser EXCEPT ![r] = BrowserAfter(i)]
                     /\ IF e = "TimeoutError"
                        THEN /\ pc' = [pc EXCEPT ![r] = "start_reset"]
                             /\ lastAttempt' = [lastAttempt EXCEPT ![r] = "timeout"]
                             /\ UNCHANGED exitCause
                        ELSE /\ pc' = [pc EXCEPT ![r] = "outer_except"]
                             /\ lastAttempt' = [lastAttempt EXCEPT ![r] = "error"]
                             /\ exitCause' = [exitCause EXCEPT ![r] = "outer_error"]
            /\ UNCHANGED <<instance, bmBound, attempt, url>>
    /\ UNCHANGED <<active, max_steps, steps, plan, actions, idx, results, calls,
                   history, result>>

\* start lines 52-54: await self._page.goto(self._start_url)
StartGoto(r) ==
    /\ pc[r] = "start_goto"
    /\ \/ /\ pc' = [pc EXCEPT ![r] = "loop_head"]
          /\ lastAttempt' = [lastAttempt EXCEPT ![r] = "ok"]
          /\ \E u \in Urls : url' = [url EXCEPT ![r] = u]
          /\ UNCHANGED exitCause
       \/ /\ pc' = [pc EXCEPT ![r] = "start_reset"]
          /\ lastAttempt' = [lastAttempt EXCEPT ![r] = "timeout"]
          /\ UNCHANGED <<url, exitCause>>
       \/ /\ pc' = [pc EXCEPT ![r] = "outer_except"]
          /\ lastAttempt' = [lastAttempt EXCEPT ![r] = "error"]
          /\ exitCause' = [exitCause EXCEPT ![r] = "outer_error"]
          /\ UNCHANGED url
    /\ UNCHANGED <<active, max_steps, steps, instance, bmBound, playwright, browser,
                   attempt, launches, lastBmOp, plan, actions, idx, results, calls,
                   history, result>>

\* start lines 54-60: except PlaywrightTimeoutError
StartReset(r) ==
    /\ pc[r] = "start_reset"
    /\ exit(r)
    /\ IF IsLastAttempt(attempt[r])
       THEN /\ pc' = [pc EXCEPT ![r] = "outer_except"]
            /\ exitCause' = [exitCause EXCEPT ![r] = "outer_error"]
            /\ UNCHANGED attempt
       ELSE /\ pc' = [pc EXCEPT ![r] = "start_launch"]
            /\ attempt' = [attempt EXCEPT ![r] = @ + 1]
            /\ UNCHANGED exitCause
    /\ UNCHANGED <<active, max_steps, steps, bmBound, launches, lastAttempt,
                   stepVars, result>>

(***************************************************************************)
(* run_agent: the loop sense -> plan -> execute.                           *)
(***************************************************************************)
\* a loop test that lets one more iteration start
LoopCondition_Inclusive(n, m) == n <= m

\* run_agent line 36: while steps < max_steps
LoopCondition(n, m) == n < m

\* run_agent lines 36-37
LoopHead(r) ==
    /\ pc[r] = "loop_head"
    /\ IF max_steps[r].isNone
       THEN \* TypeError: int < None
            /\ pc' = [pc EXCEPT ![r] = "outer_except"]
            /\ exitCause' = [exitCause EXCEPT ![r] = "outer_error"]
            /\ UNCHANGED steps
       ELSE IF LoopCondition(steps[r], max_steps[r].n)
       THEN /\ steps' = [steps EXCEPT ![r] = @ + 1]
            /\ pc' = [pc EXCEPT ![r] = "sense"]
            /\ UNCHANGED exitCause
       ELSE /\ pc' = [pc EXCEPT ![r] = "exit_normal"]
            /\ exitCause' = [exitCause EXCEPT ![r] = "budget"]
            /\ UNCHANGED steps
    /\ UNCHANGED <<active, max_steps, bmVars, stepVars, result>>

\* run_agent line 43: await bm.sense()
Sense(r) ==
    /\ pc[r] = "sense"
    /\ \/ /\ pc' = [pc EXCEPT ![r] = "lookup"]
          /\ UNCHANGED exitCause
       \/ /\ pc' = [pc EXCEPT ![r] = "outer_except"]
          /\ exitCause' = [exitCause EXCEPT ![r] = "outer_error"]
    /\ UNCHANGED <<active, max_steps, steps, bmVars, stepVars, result>>

\* run_agent lines 46-56: page text, hash, session_collection.find_one,
\* build_context
SessionLookup(r) ==
    /\ pc[r] = "lookup"
    /\ \/ /\ pc' = [pc EXCEPT ![r] = "plan"]
          /\ UNCHANGED exitCause
       \/ /\ pc' = [pc EXCEPT ![r] = "outer_except"]
          /\ exitCause' = [exitCause EXCEPT ![r] = "outer_error"]
    /\ UNCHANGED <<active, max_steps, steps, bmVars, stepVars, result>>

\* run_agent line 64: not plan, for the str get_llm_plan returns
NotPlan(text) == text = <<>>

\* run_agent lines 62-75: the plan is requested, cleaned and tested; inside
\* the try it is evaluated and becomes the list of actions
Plan(r) ==
    /\ pc[r] = "plan"
    /\ \/ \* the LLM request raises
          /\ pc' = [pc EXCEPT ![r] = "outer_except"]
          /\ exitCause' = [exitCause EXCEPT ![r] = "outer_error"]
          /\ UNCHANGED <<plan, actions, idx, results, calls>>
       \/ \E response \in PlanResponses :
             LET text == clean_llm_json(response)
                 value == literal_eval(text)
             IN  /\ plan' = [plan EXCEPT ![r] = [step |-> steps[r], text |-> text]]
                 /\ IF NotPlan(text)
                    THEN /\ pc' = [pc EXCEPT ![r] = "exit_normal"]
                         /\ exitCause' = [exitCause EXCEPT ![r] = "empty_plan"]
                         /\ UNCHANGED <<actions, idx, results, calls>>
                    ELSE IF value.raised
                    THEN \* except Exception: break
                         /\ pc' = [pc EXCEPT ![r] = "exit_normal"]
                         /\ exitCause' = [exitCause EXCEPT ![r] = "dispatch_error"]
                         /\ UNCHANGED <<actions, idx, results, calls>>
                    ELSE /\ actions' = [actions EXCEPT ![r] =
                                           IF value.isList THEN value.items ELSE <<>>]
                         /\ idx' = [idx EXCEPT ![r] = 1]
                         /\ results' = [results EXCEPT ![r] = <<>>]
                         /\ calls' = [calls EXCEPT ![r] = <<>>]
                         /\ pc' = [pc EXCEPT ![r] = "execute"]
                         /\ UNCHANGED exitCause
    /\ UNCHANGED <<active, max_steps, steps, bmVars, url, history, result>>

\* an execute that reads the fields of the descriptor inside its try block
FieldsReadOutsideTry_Inside == FALSE

\* execute lines 68-70: action.get is called before the try of line 86
FieldsReadOutsideTry == TRUE

\* execute lines 67-102: one pass of the for loop
ExecAction(r) ==
    /\ pc[r] = "execute"
    /\ idx[r] <= Len(actions[r])
    /\ LET a == actions[r][idx[r]]
       IN  IF ~IsMapping(a) /\ ~FieldsReadOutsideTry
           THEN \* the AttributeError is caught by the try of the action
                /\ results' = [results EXCEPT ![r] = Append(@, None)]
                /\ idx' = [idx EXCEPT ![r] = @ + 1]
                /\ UNCHANGED <<pc, exitCause, calls, url>>
           ELSE IF ~IsMapping(a)
           THEN \* AttributeError at action.get, outside the try of execute:
                \* it reaches the except of run_agent line 82
                /\ pc' = [pc EXCEPT ![r] = "exit_normal"]
                /\ exitCause' = [exitCause EXCEPT ![r] = "dispatch_error"]
                /\ UNCHANGED <<idx, results, calls, url>>
           ELSE \E env \in EnvOutcomes, u \in Urls :
                   LET call == BuildCall(a.v)
                       outcome == TryAction(call, env)
                       entered == HandlerEntered(call)
                       navigates == /\ entered
                                    /\ call.name \in {"click", "press_key"}
                                    /\ outcome = Returned("True")
                   IN  /\ env \in HandlerOutcomes(call.name)
                       /\ u # url[r] => navigates
                       /\ url' = [url EXCEPT ![r] = u]
                       /\ calls' = [calls EXCEPT ![r] = Append(@,
                             [step |-> steps[r], idx |-> idx[r], action |-> a.v,
                              name |-> call.name,
                              args |-> call.args, kwargs |-> call.kwargs,
                              entered |-> entered,
                              body |-> IF call.name = "scrape_and_store"
                                       THEN env ELSE None,
                              timeout |-> IF entered /\ call.name = "wait"
                                          THEN WaitTimeout(call) ELSE 0,
                              outcome |-> outcome])]
                       /\ IF outcome.exc = "none" \/ CaughtByExecute(outcome.exc)
                          THEN /\ results' = [results EXCEPT ![r] =
                                                 AppendResult(@, outcome)]
                               /\ idx' = [idx EXCEPT ![r] = @ + 1]
                               /\ UNCHANGED <<pc, exitCause>>
                          ELSE /\ pc' = [pc EXCEPT ![r] = "exit_normal"]
                               /\ exitCause' = [exitCause EXCEPT ![r] = "dispatch_error"]
                               /\ UNCHANGED <<idx, results>>
    /\ UNCHANGED <<active, max_steps, steps, bmVars, plan, actions, history, result>>

\* execute line 104: the for loop is over and results is returned
ExecuteReturned(r) == pc[r] = "execute" /\ idx[r] > Len(actions[r])

\* execute line 104 and run_agent lines 76-81: the results are returned,
\* mapped onto the descriptors and added to the history
RecordStep(r) ==
    /\ ExecuteReturned(r)
    /\ LET mapped == map_actions_to_results(actions[r], results[r])
       IN  IF mapped.raised
           THEN \* ValueError: except Exception: break
                /\ pc' = [pc EXCEPT ![r] = "exit_normal"]
                /\ exitCause' = [exitCause EXCEPT ![r] = "dispatch_error"]
                /\ UNCHANGED history
           ELSE /\ history' = [history EXCEPT ![r] = update_history(@, url[r], mapped)]
                /\ pc' = [pc EXCEPT ![r] = "loop_head"]
                /\ UNCHANGED exitCause
    /\ UNCHANGED <<active, max_steps, steps, bmVars, url, plan, actions, idx,
                   results, calls, result>>

\* run_agent line 86: await bm.exit() after the loop
ReleaseAfterLoop(r) == exit(r)

\* run_agent lines 86-88
NormalExit(r) ==
    /\ pc[r] = "exit_normal"
    /\ ReleaseAfterLoop(r)
    /\ result' = [result EXCEPT ![r] = Complete(steps[r])]
    /\ pc' = [pc EXCEPT ![r] = "done"]
    /\ UNCHANGED <<active, max_steps, steps, bmBound, attempt, launches,
                   lastAttempt, stepVars, exitCause>>

\* a handler that reports the failure without releasing the session
ReleaseInHandler_Skipped(r) == UNCHANGED <<instance, playwright, browser, lastBmOp>>

\* run_agent line 90: await bm.exit() in the handler
ReleaseInHandler(r) == exit(r)

\* run_agent lines 89-91: except Exception
OuterExcept(r) ==
    /\ pc[r] = "outer_except"
    /\ IF ~bmBound[r]
       THEN \* bm is unbound: UnboundLocalError leaves run_agent
            /\ result' = [result EXCEPT ![r] = Propagated]
            /\ UNCHANGED <<instance, playwright, browser, lastBmOp>>
       ELSE /\ ReleaseInHandler(r)
            /\ result' = [result EXCEPT ![r] = ReturnedNone]
    /\ pc' = [pc EXCEPT ![r] = "done"]
    /\ UNCHANGED <<active, max_steps, steps, bmBound, attempt, launches,
                   lastAttempt, stepVars, exitCause>>

Next ==
    \/ \E r \in Runs : r \in active /\ CreateLLM(r) /\ UNCHANGED libVars
    \/ \E r \in Runs : r \in active /\ CreateBM(r) /\ UNCHANGED libVars
    \/ \E r \in Runs : r \in active /\ StartLaunch(r) /\ UNCHANGED libVars
    \/ \E r \in Runs : r \in active /\ StartGoto(r) /\ UNCHANGED libVars
    \/ \E r \in Runs : r \in active /\ StartReset(r) /\ UNCHANGED libVars
    \/ \E r \in Runs : r \in active /\ LoopHead(r) /\ UNCHANGED libVars
    \/ \E r \in Runs : r \in active /\ Sense(r) /\ UNCHANGED libVars
    \/ \E r \in Runs : r \in active /\ SessionLookup(r) /\ UNCHANGED libVars
    \/ \E r \in Runs : r \in active /\ Plan(r) /\ UNCHANGED libVars
    \/ \E r \in Runs : r \in active /\ ExecAction(r) /\ UNCHANGED libVars
    \/ \E r \in Runs : r \in active /\ RecordStep(r) /\ UNCHANGED libVars
    \/ \E r \in Runs : r \in active /\ NormalExit(r) /\ UNCHANGED libVars
    \/ \E r \in Runs : r \in active /\ OuterExcept(r) /\ UNCHANGED libVars

Spec == Init /\ [][Next]_vars

\* two requests served at the same time, each with its own run_agent: one
\* with a budget of one step, one with a budget of none
ConcInit ==
    /\ active = Runs
    /\ max_steps = [r \in Runs |-> IF r = "A" THEN IntArg(1) ELSE IntArg(0)]
    /\ InitRun
    /\ GenIdle("deepseek")
    /\ ChunkIdle
    /\ StoreIdle
    /\ ScrapeIdle
    /\ ParseIdle
    /\ LifeIdle
    /\ KeyIdle

ConcSpec == ConcInit /\ [][Next]_vars

\* the gateway on its own: calls of llm_request on an LLMManager with either
\* provider, no run of run_agent being under way
GatewayInit ==
    /\ active = {}
    /\ max_steps = [r \in Runs |-> IntArg(0)]
    /\ InitRun
    /\ \E p \in Providers : GenIdle(p)
    /\ ChunkIdle
    /\ StoreIdle
    /\ ScrapeIdle
    /\ ParseIdle
    /\ LifeIdle
    /\ KeyIdle

GatewayNext ==
    \/ LlmRequest /\ UNCHANGED <<agentVars, chunkVars, storeVars, scrapeVars, parseVars, lifeVars, keyVars>>
    \/ DeepSeekPost /\ UNCHANGED <<agentVars, chunkVars, storeVars, scrapeVars, parseVars, lifeVars, keyVars>>
    \/ DeepSeekSleep /\ UNCHANGED <<agentVars, chunkVars, storeVars, scrapeVars, parseVars, lifeVars, keyVars>>
    \/ GeminiGenerate /\ UNCHANGED <<agentVars, chunkVars, storeVars, scrapeVars, parseVars, lifeVars, keyVars>>

GatewaySpec == GatewayInit /\ [][GatewayNext]_vars

\* chunk_text on its own: one call with a text and a size
ChunkerInit ==
    /\ active = {}
    /\ max_steps = [r \in Runs |-> IntArg(0)]
    /\ InitRun
    /\ GenIdle("deepseek")
    /\ chunkText \in Texts
    /\ chunkSize \in ChunkSizes
    /\ chunkPc = "called"
    /\ chunkStep = 0
    /\ chunkStart = 0
    /\ chunks = <<>>
    /\ chunkOffsets = <<>>
    /\ StoreIdle
    /\ ScrapeIdle
    /\ ParseIdle
    /\ LifeIdle
    /\ KeyIdle

ChunkerNext ==
    \/ ChunkEnter /\ UNCHANGED <<agentVars, llmVars, storeVars, scrapeVars, parseVars, lifeVars, keyVars>>
    \/ ChunkPass /\ UNCHANGED <<agentVars, llmVars, storeVars, scrapeVars, parseVars, lifeVars, keyVars>>
    \/ ChunkReturn /\ UNCHANGED <<agentVars, llmVars, storeVars, scrapeVars, parseVars, lifeVars, keyVars>>

ChunkerSpec == ChunkerInit /\ [][ChunkerNext]_vars

\* store_entry_with_embedding on its own: one call for an entry
DedupInit ==
    /\ active = {}
    /\ max_steps = [r \in Runs |-> IntArg(0)]
    /\ InitRun
    /\ GenIdle("deepseek")
    /\ ChunkIdle
    /\ storePc = "called"
    /\ storeThreshold \in Thresholds
    /\ storeHasText \in BOOLEAN
    /\ storeCandidates \in CandidateLists
    /\ storeSearch = "none"
    /\ storeSimilar = <<>>
    /\ storeWrites = <<>>
    /\ storeResult = StorePending
    /\ ScrapeIdle
    /\ ParseIdle
    /\ LifeIdle
    /\ KeyIdle

DedupNext ==
    \/ StoreFindSimilar /\ UNCHANGED <<agentVars, llmVars, chunkVars, scrapeVars, parseVars, lifeVars, keyVars>>
    \/ StoreInsert /\ UNCHANGED <<agentVars, llmVars, chunkVars, scrapeVars, parseVars, lifeVars, keyVars>>
    \/ StoreFallback /\ UNCHANGED <<agentVars, llmVars, chunkVars, scrapeVars, parseVars, lifeVars, keyVars>>

DedupSpec == DedupInit /\ [][DedupNext]_vars

\* scrape_and_store on its own: calls of run on pages of one url, one after
\* the other, the tasks of a call going on until they end
ScrapeInit ==
    /\ active = {}
    /\ max_steps = [r \in Runs |-> IntArg(0)]
    /\ InitRun
    /\ GenIdle("deepseek")
    /\ ChunkIdle
    /\ StoreIdle
    /\ ScrapeIdle
    /\ ParseIdle
    /\ LifeIdle
    /\ KeyIdle

ScrapeNext ==
    \/ ScrapeEnter /\ UNCHANGED <<agentVars, llmVars, chunkVars, storeVars, parseVars, lifeVars, keyVars>>
    \/ ScrapeLookup /\ UNCHANGED <<agentVars, llmVars, chunkVars, storeVars, parseVars, lifeVars, keyVars>>
    \/ ScrapeRecord /\ UNCHANGED <<agentVars, llmVars, chunkVars, storeVars, parseVars, lifeVars, keyVars>>
    \/ \E t \in TaskIds : TaskAcquire(t) /\ UNCHANGED <<agentVars, llmVars, chunkVars, storeVars, parseVars, lifeVars, keyVars>>
    \/ \E t \in TaskIds : TaskLLM(t) /\ UNCHANGED <<agentVars, llmVars, chunkVars, storeVars, parseVars, lifeVars, keyVars>>
    \/ \E t \in TaskIds : TaskSearch(t) /\ UNCHANGED <<agentVars, llmVars, chunkVars, storeVars, parseVars, lifeVars, keyVars>>
    \/ \E t \in TaskIds : TaskInsert(t) /\ UNCHANGED <<agentVars, llmVars, chunkVars, storeVars, parseVars, lifeVars, keyVars>>
    \/ ScrapeGather /\ UNCHANGED <<agentVars, llmVars, chunkVars, storeVars, parseVars, lifeVars, keyVars>>
    \/ ScrapeExit /\ UNCHANGED <<agentVars, llmVars, chunkVars, storeVars, parseVars, lifeVars, keyVars>>

ScrapeSpec == ScrapeInit /\ [][ScrapeNext]_vars

\* the parsing of one response on its own: call_llm from the response on,
\* and fix_partial_json applied to the same text
ParseInit ==
    /\ active = {}
    /\ max_steps = [r \in Runs |-> IntArg(0)]
    /\ InitRun
    /\ GenIdle("deepseek")
    /\ ChunkIdle
    /\ StoreIdle
    /\ ScrapeIdle
    /\ respText \in ResponseTexts
    /\ parsePc = "received"
    /\ parsed = <<>>
    /\ parseRepaired = JsonNone
    /\ entriesLoop = "none"
    /\ fixPc = "called"
    /\ fixOut = JsonNone
    /\ LifeIdle
    /\ KeyIdle

ParseNext ==
    \/ CallLlmStrict /\ UNCHANGED <<agentVars, llmVars, chunkVars, storeVars, scrapeVars, lifeVars, keyVars>>
    \/ CallLlmRepair /\ UNCHANGED <<agentVars, llmVars, chunkVars, storeVars, scrapeVars, lifeVars, keyVars>>
    \/ ProcessEntries /\ UNCHANGED <<agentVars, llmVars, chunkVars, storeVars, scrapeVars, lifeVars, keyVars>>
    \/ FixPartialJson /\ UNCHANGED <<agentVars, llmVars, chunkVars, storeVars, scrapeVars, lifeVars, keyVars>>

ParseSpec == ParseInit /\ [][ParseNext]_vars

\* one call of run on its own: the tasks of the chunks of one page
OneCallNext ==
    \/ scrapeCall = 0 /\ ScrapeEnter /\ UNCHANGED <<agentVars, llmVars, chunkVars, storeVars, parseVars, lifeVars, keyVars>>
    \/ ScrapeLookup /\ UNCHANGED <<agentVars, llmVars, chunkVars, storeVars, parseVars, lifeVars, keyVars>>
    \/ ScrapeRecord /\ UNCHANGED <<agentVars, llmVars, chunkVars, storeVars, parseVars, lifeVars, keyVars>>
    \/ \E t \in TaskIds : TaskAcquire(t) /\ UNCHANGED <<agentVars, llmVars, chunkVars, storeVars, parseVars, lifeVars, keyVars>>
    \/ \E t \in TaskIds : TaskLLM(t) /\ UNCHANGED <<agentVars, llmVars, chunkVars, storeVars, parseVars, lifeVars, keyVars>>
    \/ \E t \in TaskIds : TaskSearch(t) /\ UNCHANGED <<agentVars, llmVars, chunkVars, storeVars, parseVars, lifeVars, keyVars>>
    \/ \E t \in TaskIds : TaskInsert(t) /\ UNCHANGED <<agentVars, llmVars, chunkVars, storeVars, parseVars, lifeVars, keyVars>>
    \/ ScrapeGather /\ UNCHANGED <<agentVars, llmVars, chunkVars, storeVars, parseVars, lifeVars, keyVars>>
    \/ ScrapeExit /\ UNCHANGED <<agentVars, llmVars, chunkVars, storeVars, parseVars, lifeVars, keyVars>>

OneCallSpec == ScrapeInit /\ [][OneCallNext]_vars

\* the lifecycle of one BrowserManager on its own
LifecycleInit ==
    /\ active = {}
    /\ max_steps = [r \in Runs |-> IntArg(0)]
    /\ InitRun
    /\ GenIdle("deepseek")
    /\ ChunkIdle
    /\ StoreIdle
    /\ ScrapeIdle
    /\ ParseIdle
    /\ LifeIdle
    /\ KeyIdle

LifecycleNext ==
    \/ LaunchBrowser /\ UNCHANGED <<agentVars, llmVars, chunkVars, storeVars, scrapeVars, parseVars, keyVars>>
    \/ BmExit /\ UNCHANGED <<agentVars, llmVars, chunkVars, storeVars, scrapeVars, parseVars, keyVars>>

LifecycleSpec == LifecycleInit /\ [][LifecycleNext]_vars

\* calls of map_actions_to_results on their own
KeyInit ==
    /\ active = {}
    /\ max_steps = [r \in Runs |-> IntArg(0)]
    /\ InitRun
    /\ GenIdle("deepseek")
    /\ ChunkIdle
    /\ StoreIdle
    /\ ScrapeIdle
    /\ ParseIdle
    /\ LifeIdle
    /\ keyBatch \in ListsUpTo(WrittenDescriptors, MaxBatch)
    /\ keyResults \in ListsUpTo({"True", "False", None}, MaxBatch)
    /\ keyPc = "called"
    /\ keyOut = NoMapping

KeyNext ==
    \/ MapActions /\ UNCHANGED <<agentVars, llmVars, chunkVars, storeVars, scrapeVars, parseVars, lifeVars>>

KeySpec == KeyInit /\ [][KeyNext]_vars

(***************************************************************************)
(* The claims.                                                             *)
(***************************************************************************)
Finished(r) == pc[r] = "done"

C2_ResultRecord ==
    \A r \in Runs :
        Finished(r) =>
            /\ result[r].kind = "returned"
            /\ result[r].status \in {"complete", "error"}
            /\ exitCause[r] \in {"outer_error", "dispatch_error"}
                  => result[r].status = "error"

\* max_steps is an integer >= 0
IntBudget(r) == ~max_steps[r].isNone /\ max_steps[r].n >= 0

\* the longest plan text, and the weight of one iteration of the loop
MaxResponseLen ==
    CHOOSE n \in {Len(t) : t \in PlanResponses} :
        \A t \in PlanResponses : Len(t) <= n
IterationWeight == MaxResponseLen + 5

\* the iterations the budget still allows
Remaining(r) ==
    IF max_steps[r].isNone \/ max_steps[r].n < steps[r] THEN 0
    ELSE max_steps[r].n - steps[r]

\* a natural number that every step of run r makes smaller
Variant(r) ==
    LET top == 2 + IterationWeight * Remaining(r)
        launch == 3 + IterationWeight * (Remaining(r) + 1)
    IN  CASE pc[r] = "done" -> 0
          [] pc[r] \in {"exit_normal", "outer_except"} -> 1
          [] pc[r] = "loop_head" -> top
          [] pc[r] = "execute" -> top + IterationWeight - 3 - idx[r]
          [] pc[r] = "plan" -> top + IterationWeight - 3
          [] pc[r] = "lookup" -> top + IterationWeight - 2
          [] pc[r] = "sense" -> top + IterationWeight - 1
          [] pc[r] = "start_reset" -> launch + 3 * (retries - attempt[r])
          [] pc[r] = "start_goto" -> launch + 3 * (retries - attempt[r]) + 1
          [] pc[r] = "start_launch" -> launch + 3 * (retries - attempt[r]) + 2
          [] pc[r] = "new_bm" -> launch + 3 * retries + 3
          [] pc[r] = "new_llm" -> launch + 3 * retries + 4

\* the run r can take a step: execute has returned (RecordStep takes one in
\* each such state), or another action of r is enabled
CanStep(r) ==
    \/ ExecuteReturned(r)
    \/ ENABLED (\/ CreateLLM(r) \/ CreateBM(r) \/ StartLaunch(r) \/ StartGoto(r)
                \/ StartReset(r) \/ LoopHead(r) \/ Sense(r) \/ SessionLookup(r)
                \/ Plan(r) \/ ExecAction(r) \/ NormalExit(r) \/ OuterExcept(r))

\* C3: for an integer max_steps >= 0 the step counter never exceeds
\* max_steps, an iteration starts only while steps < max_steps, and the run
\* terminates, every external call returning or raising: a run that has not
\* finished can take a step, and each of its steps lowers a natural number.
C3_StepBudget ==
    /\ [](\A r \in Runs : IntBudget(r) =>
            /\ steps[r] <= max_steps[r].n
            /\ Variant(r) >= 0
            /\ r \in active => (Finished(r) \/ CanStep(r)))
    /\ [][\A r \in Runs : IntBudget(r) =>
            /\ steps'[r] # steps[r]
                  => (steps[r] < max_steps[r].n /\ steps'[r] = steps[r] + 1)
            /\ <<pc[r], idx[r]>>' # <<pc[r], idx[r]>> => Variant(r)' < Variant(r)]_vars

\* C3: the loop was left because the budget of two or more steps was used up
C3_Witness ==
    /\ exitCause["A"] = "budget"
    /\ steps["A"] >= 2
    /\ steps["A"] = max_steps["A"].n
    /\ Finished("A")

\* the plan text is the empty list, or cannot be evaluated
IsEmptyList(text) == text = <<LBracket, RBracket>>
IsUnparseable(text) == literal_eval(text).raised

\* C4: when the response of step k is the empty plan [] or cannot be parsed,
\* the loop ends in step k: nothing is dispatched in step k, no step k+1 is
\* begun, and the run finishes without error with steps_ran = k.
C4_EmptyPlanEndsLoop ==
    \A r \in Runs :
        (plan[r].step >= 1 /\ (IsEmptyList(plan[r].text) \/ IsUnparseable(plan[r].text)))
            => /\ steps[r] = plan[r].step
               /\ pc[r] \notin {"sense", "lookup", "plan"}
               /\ \A i \in DOMAIN calls[r] : calls[r][i].step # plan[r].step
               /\ Finished(r) => result[r] = Complete(plan[r].step)

StartPcs == {"start_launch", "start_goto", "start_reset"}

\* C5: start() makes at most 5 launch-and-navigate attempts; an attempt after
\* the first is made only after the previous one ended in a timeout and with
\* the browser and the driver closed (handles None); after a successful
\* attempt start has returned; a timeout of the 5th attempt is raised to the
\* caller.
C5_LaunchRetries ==
    \A r \in Runs :
        /\ launches[r] <= 5
        /\ (pc[r] = "start_launch" /\ launches[r] >= 1)
              => /\ lastAttempt[r] = "timeout"
                 /\ browser[r] = None /\ playwright[r] = None
                 /\ lastBmOp[r] = "exit"
        /\ lastAttempt[r] = "ok" => pc[r] \notin StartPcs
        /\ lastAttempt[r] = "error" => pc[r] \notin StartPcs
        /\ (launches[r] = 5 /\ lastAttempt[r] = "timeout" /\ pc[r] # "start_reset")
              => /\ pc[r] \in {"outer_except", "done"}
                 /\ exitCause[r] = "outer_error"
                 /\ result[r].kind # "returned"

\* C5: the fifth attempt timed out, the session was torn down and the error
\* is on its way to the caller of start
C5_Witness ==
    /\ launches["A"] = 5
    /\ lastAttempt["A"] = "timeout"
    /\ pc["A"] = "outer_except"
    /\ browser["A"] = None /\ playwright["A"] = None

\* C6: at most one browser session is active in the process at any time: at
\* most one BrowserManager holds an open browser, also after a launch retry
\* inside start(), since constructing a second one while one is active raises.
C6_OneActiveSession ==
    Cardinality({r \in Runs : browser[r] = "open"}) <= 1

\* the elements of the list given to execute are mappings
AllMappings(acts) == \A i \in DOMAIN acts : IsMapping(acts[i])

\* the entry of results that execute records for an outcome
Recorded(outcome) == IF outcome.exc = "none" THEN outcome.value ELSE None

\* C7: for a list of descriptors (mappings), execute returns a list of the
\* same length whose i-th element is the outcome of the i-th descriptor: the
\* i-th invocation was made for the i-th descriptor and the i-th result is
\* what it returned, or None when it raised.
C7_OneResultPerDescriptor ==
    \A r \in Runs :
        ExecuteReturned(r) =>
            /\ Len(results[r]) = Len(actions[r])
            /\ Len(calls[r]) = Len(actions[r])
            /\ \A i \in DOMAIN actions[r] :
                  /\ calls[r][i].idx = i
                  /\ calls[r][i].action = actions[r][i].v
                  /\ results[r][i] = Recorded(calls[r][i].outcome)

\* C7: a batch of three descriptors has returned a value, a value and a failure
C7_Witness ==
    /\ ExecuteReturned("A")
    /\ Len(actions["A"]) = 3
    /\ results["A"] = <<"False", "True", None>>

\* C8: partial failure: None is recorded at exactly the positions whose
\* handler (or its look-up) raised, the other positions hold what their
\* handler returned, no position is skipped and every later action of the
\* batch is run.
C8_PartialFailure ==
    \A r \in Runs :
        AllMappings(actions[r]) =>
            /\ Len(results[r]) = Len(calls[r])
            /\ \A i \in DOMAIN calls[r] :
                  /\ i \in DOMAIN results[r]
                  /\ calls[r][i].outcome.exc # "none" <=> results[r][i] = None
                  /\ calls[r][i].outcome.exc = "none"
                        => results[r][i] = calls[r][i].outcome.value
            /\ pc[r] = "execute" => idx[r] = Len(calls[r]) + 1
            /\ pc[r] # "execute" => Len(calls[r]) = Len(actions[r])

\* C8: three actions, the second raised, the first and the third returned
C8_Witness ==
    /\ ExecuteReturned("A")
    /\ Len(calls["A"]) = 3
    /\ calls["A"][1].outcome = Returned("True")
    /\ calls["A"][2].outcome.exc # "none"
    /\ calls["A"][3].outcome = Returned("False")
    /\ results["A"] = <<"True", None, "False">>

\* the i-th invocation of the batch of run r was a wait whose target did not
\* appear, or did not change, within the timeout
WaitTimedOut(r, i) ==
    /\ calls[r][i].name = "wait"
    /\ calls[r][i].entered
    /\ calls[r][i].outcome.exc = "TimeoutError"

DescriptorTimeout(a) ==
    IF "params" \in DOMAIN a /\ "timeout" \in DOMAIN a.params
    THEN a.params.timeout.n
    ELSE DefaultWaitTimeout

\* C10: a wait descriptor is dispatched with its selector as the single
\* positional argument, and the handler waits with the timeout given in the
\* params of the descriptor, or with its default when none is given.
C10_WaitUsesGivenTimeout ==
    \A r \in Runs :
        \A i \in DOMAIN calls[r] :
            (calls[r][i].name = "wait" /\ calls[r][i].entered) =>
                /\ calls[r][i].args = <<calls[r][i].action.selector>>
                /\ calls[r][i].timeout = DescriptorTimeout(calls[r][i].action)

\* C11: DeepSeekProvider.generate retries read timeouts only: at most 3
\* request attempts are made; attempt n+1 comes only after attempt n ended in
\* a read timeout and a sleep of 2*n seconds; a successful attempt returns at
\* once; a read timeout of the 3rd attempt is raised with no further sleep; a
\* non-timeout HTTP error is raised after its attempt with no sleep and no
\* further attempt.
C11_DeepSeekRetries ==
    provider = "deepseek" =>
        \A i \in DOMAIN genLog :
            LET e == genLog[i]
                last == i = Len(genLog)
            IN  /\ e.kind = "attempt" =>
                      /\ e.n \in 1..3
                      /\ \/ i = 1 /\ e.n = 1
                         \/ /\ i >= 3
                            /\ genLog[i - 2] = AttemptEvent(e.n - 1, "ReadTimeout")
                            /\ genLog[i - 1] = SleepEvent(2 * (e.n - 1))
                      /\ e.outcome = "ok" =>
                            last /\ genPc = "done" /\ genResult = "returned"
                      /\ e.outcome = "HTTPStatusError" =>
                            last /\ genPc = "done" /\ genResult = "HTTPStatusError"
                      /\ (e.outcome = "ReadTimeout" /\ e.n = 3) =>
                            last /\ genPc = "done" /\ genResult = "ReadTimeout"
                /\ e.kind = "sleep" =>
                      /\ i > 1
                      /\ genLog[i - 1].kind = "attempt"
                      /\ genLog[i - 1].outcome = "ReadTimeout"
                      /\ genLog[i - 1].n < 3
                      /\ e.n = 2 * genLog[i - 1].n

\* C11: three attempts that each ended in a read timeout, with sleeps of 2
\* and 4 seconds between them, and the timeout raised to the caller
C11_Witness ==
    /\ provider = "deepseek"
    /\ genLog = <<AttemptEvent(1, "ReadTimeout"), SleepEvent(2),
                  AttemptEvent(2, "ReadTimeout"), SleepEvent(4),
                  AttemptEvent(3, "ReadTimeout")>>
    /\ genPc = "done"
    /\ genResult = "ReadTimeout"

\* the attempts of the current call that ended in a transient timeout
IsTimedOutAttempt(e) == e.kind = "attempt" /\ e.outcome \in TransientTimeouts
IsSleep(e) == e.kind = "sleep"

\* C12: whichever provider LLMManager selected, a transient timeout of a
\* request made through llm_request is surfaced to the caller only after it
\* was retried with backoff: max_retries attempts timed out, with a sleep
\* between them.
C12_RetriesWhicheverProvider ==
    (genPc = "done" /\ genResult \in TransientTimeouts) =>
        /\ Len(SelectSeq(genLog, IsTimedOutAttempt)) = max_retries
        /\ Len(SelectSeq(genLog, IsSleep)) = max_retries - 1

\* the chunks returned so far lie at the offsets 0, step, 2*step, ..., each
\* the substring of at most size characters that starts at its offset
ChunksAreSlices ==
    /\ Len(chunkOffsets) = Len(chunks)
    /\ \A k \in DOMAIN chunks :
          /\ chunkOffsets[k] = (k - 1) * StepOf(chunkSize)
          /\ Len(chunks[k]) <= chunkSize
          /\ chunks[k] = Slice(chunkText, chunkOffsets[k], chunkOffsets[k] + chunkSize)

\* every index of the text lies in the span of a chunk
ChunksCover ==
    \A i \in 1..Len(chunkText) :
        \E k \in DOMAIN chunks :
            chunkOffsets[k] < i /\ i <= chunkOffsets[k] + Len(chunks[k])

ChunkDone == chunkPc \in {"returned", "raised"}

\* C13: for any text and any size >= 1, chunk_text returns chunks that are
\* each a contiguous substring of length <= size, taken at the offsets 0,
\* step, 2*step, ... in order, and whose spans together cover every index of
\* the text.
C13_ChunksCoverText ==
    (ChunkDone /\ chunkSize >= 1) =>
        /\ chunkPc = "returned"
        /\ ChunksAreSlices
        /\ ChunksCover

CeilDiv(a, b) == (a + b - 1) \div b

\* C14 as claimed: the number of chunks returned is ceil(len(text) / step).
C14_ChunkCountIsCeil ==
    chunkPc = "returned" =>
        Len(chunks) = CeilDiv(Len(chunkText), chunkStep)

\* C14 as amended: for a step of at least 1, the number of chunks returned
\* is 0 for the empty text and otherwise 1 + ceil(max(0, len - size) / step):
\* the loop stops with the first chunk that reaches the end of the text.
C14_ChunkCountStopsAtEnd ==
    chunkPc = "returned" =>
        Len(chunks) =
            IF Len(chunkText) = 0 THEN 0
            ELSE IF Len(chunkText) <= chunkSize THEN 1
            ELSE 1 + CeilDiv(Len(chunkText) - chunkSize, chunkStep)

\* C14: three chunks were returned for a text longer than size
C14_Witness ==
    /\ chunkPc = "returned"
    /\ Len(chunks) = 3
    /\ Len(chunkText) > chunkSize
    /\ CeilDiv(Len(chunkText), chunkStep) # 3

\* the last n and the first n elements of a sequence
Suffix(c, n) == SubSeq(c, Len(c) - n + 1, Len(c))
Prefix(c, n) == SubSeq(c, 1, n)

\* C15: for any two consecutive chunks i and i+1, the last size - step
\* characters of chunk i are the first size - step characters of chunk i+1,
\* except at the final boundary when chunk i+1 is shorter than that.
C15_ConsecutiveChunksOverlap ==
    LET overlap == chunkSize - chunkStep
    IN  chunkPc \in {"loop", "returned"} =>
            \A k \in DOMAIN chunks :
                k < Len(chunks) =>
                    \/ /\ chunkPc = "returned"
                       /\ k + 1 = Len(chunks)
                       /\ Len(chunks[k + 1]) < overlap
                    \/ /\ Len(chunks[k]) >= overlap
                       /\ Len(chunks[k + 1]) >= overlap
                       /\ Suffix(chunks[k], overlap) = Prefix(chunks[k + 1], overlap)

\* C15: three chunks of a text, neighbours sharing an overlap of two
\* characters that are not both the same letter
C15_Witness ==
    /\ chunkPc = "returned"
    /\ Len(chunks) >= 2
    /\ chunkSize - chunkStep = 2
    /\ Suffix(chunks[1], 2) = <<"a", "b">>
    /\ Prefix(chunks[2], 2) = <<"a", "b">>

\* the similarity search of the call was made and returned
Searched == storeSearch = "ok"

\* the best score among the candidates of the search
BestScore ==
    CHOOSE b \in {storeCandidates[i].score : i \in DOMAIN storeCandidates} :
        \A i \in DOMAIN storeCandidates : storeCandidates[i].score <= b

\* some candidate of the search qualifies
SomeQualifies ==
    \E i \in DOMAIN storeCandidates : storeCandidates[i].score >= storeThreshold

\* C19: the threshold is inclusive: when a candidate of the search has a
\* score equal to the threshold, the entry is treated as a duplicate (stored
\* = False, nothing written); when the best score is just below the
\* threshold, the entry is stored as new (stored = True).
C19_ThresholdInclusive ==
    (storePc = "done" /\ Searched /\ storeResult.kind = "returned") =>
        /\ (\E i \in DOMAIN storeCandidates :
                storeCandidates[i].score = storeThreshold)
              => (storeResult.stored = FALSE /\ storeWrites = <<>>)
        /\ (storeCandidates # <<>> /\ BestScore = storeThreshold - 1)
              => (storeResult.stored = TRUE /\ Len(storeWrites) = 1)

\* C19: the best candidate scored exactly the threshold and the entry was
\* not stored
C19_Witness ==
    /\ storePc = "done" /\ Searched
    /\ storeCandidates # <<>>
    /\ BestScore = storeThreshold
    /\ storeResult.kind = "returned"
    /\ storeResult.stored = FALSE

\* C20: when at least one candidate qualifies, nothing is written to the
\* corpus, stored = False is returned, and the returned entry is the
\* candidate with the highest score among the qualifying ones, with that
\* score as similarity_score.
C20_ReturnsTopCandidate ==
    (storePc = "done" /\ Searched /\ SomeQualifies) =>
        /\ storeWrites = <<>>
        /\ storeResult.kind = "returned"
        /\ storeResult.stored = FALSE
        /\ storeResult.similarity_score = BestScore
        /\ \E i \in DOMAIN storeCandidates :
              /\ storeCandidates[i].id = storeResult.entry
              /\ storeCandidates[i].score = BestScore

\* C20: two candidates of different scores qualified, a third did not, and
\* the better one was returned
C20_Witness ==
    /\ storePc = "done" /\ Searched
    /\ Len(storeCandidates) = 3
    /\ storeCandidates[1].score > storeCandidates[2].score
    /\ storeCandidates[2].score >= storeThreshold
    /\ storeCandidates[3].score < storeThreshold
    /\ storeResult = Reused(storeCandidates[1])

\* call c of run has finished
CallDone(c) == c < scrapeCall \/ (c = scrapeCall /\ scrapePc = "done")

\* C16: session idempotence: after two successive calls of run on a page
\* with the same url and text hash, the first of which recorded its session,
\* the session store holds exactly one record for the pair, and the second
\* call made no LLM request and no corpus write and returned False.
C16_SessionIdempotence ==
    (/\ CallDone(1) /\ CallDone(2)
     /\ scrapeCalls[1].hash = scrapeCalls[2].hash
     /\ scrapeCalls[1].recorded) =>
        /\ sessionStore[scrapeCalls[2].hash] = 1
        /\ scrapeCalls[2].llm = 0
        /\ scrapeCalls[2].writes = 0
        /\ scrapeCalls[2].result = Returned("False")

\* C17: when the page of a call is split into 2 chunks and the LLM extracts
\* the same entry from each, the corpus, empty before, holds exactly one
\* document for that fact once both chunks are processed, under every
\* interleaving of the two tasks.
C17_OneEntryAcrossChunks ==
    \A f \in Facts :
        (/\ scrapeCall = 1
         /\ scrapeCalls[1].chunks = 2
         /\ tasks[<<1, 1>>].pc = "done" /\ tasks[<<1, 1>>].entry = f
         /\ tasks[<<1, 2>>].pc = "done" /\ tasks[<<1, 2>>].entry = f) =>
            corpus[f] = 1

\* C18: at most 2 chunk-extraction tasks are in flight at the same time,
\* whatever the number of chunks.
C18_AtMostTwoInFlight == Cardinality(InFlight) <= 2

\* the semaphore of a call caps the tasks of that call: at most
\* SemaphoreSlots of them are in flight
InFlightPerCallCapped ==
    \A c \in CallIds :
        Cardinality({t \in InFlight : t[1] = c}) <= SemaphoreSlots

\* the similarity search of the call raised inside vector_search, or the
\* embedder raised in find_similar_entries
SearchOrEmbedFailed == storeSearch \in {"search_failed", "embed_failed"}

BodyReturned == scrapeCall > 0 /\ scrapePc = "done" /\ scrapeReturn.exc = "none"

\* C22: run returns True exactly when at least one entry was newly
\* extracted and stored by this call, and False when the page was already
\* processed or no entry was found.
C22_TrueIffNewlyStored ==
    BodyReturned =>
        /\ scrapeCalls[scrapeCall].result = Returned("True")
              <=> scrapeCalls[scrapeCall].writes > 0
        /\ scrapeCalls[scrapeCall].writes = 0
              => scrapeCalls[scrapeCall].result = Returned("False")

\* the value of the return statement of run, before the async with block is
\* left, is True exactly when the call stored a new entry
ReturnValueTrueIffNewlyStored ==
    BodyReturned =>
        (scrapeReturn = Returned("True") <=> scrapeCalls[scrapeCall].writes > 0)

\* the strict parse of the response text
StrictParse == json_loads(JsonStr(respText))
\* the parse of the repaired response text
RepairedParse == json_loads(fix_partial_json(respText))

\* C23: parsing an extraction response is never fatal: for every response
\* text call_llm returns a list of candidate entries (so that the loop of
\* process_chunk runs over it), a strictly parsed single object becomes a
\* one-element list, and when the strict parse and the repaired parse both
\* fail, a text without closing brace included, the result is the empty
\* list.
C23_AlwaysAListOfEntries ==
    parsePc \in {"returned", "done"} =>
        /\ IsList(parsed)
        /\ entriesLoop # "TypeError"
        /\ (~StrictParse.raised /\ IsDict(StrictParse.value))
              => parsed = <<"[">> \o StrictParse.value \o <<"]">>
        /\ (StrictParse.raised /\ RepairedParse.raised) => parsed = EmptyList

\* the text of the response is one scalar
IsScalarText == SelectSeq(respText, IsNotJsonSpace) = <<"n">>

\* call_llm returns a list for every response text that is not a scalar on
\* its own, the single object and the two failed parses as C23 has them
ListUnlessScalar ==
    (parsePc \in {"returned", "done"} /\ ~IsScalarText) =>
        /\ IsList(parsed)
        /\ entriesLoop # "TypeError"
        /\ (~StrictParse.raised /\ IsDict(StrictParse.value))
              => parsed = <<"[">> \o StrictParse.value \o <<"]">>
        /\ (StrictParse.raised /\ RepairedParse.raised) => parsed = EmptyList

\* the text up to its last closing brace
UpToLastBrace == SubSeq(respText, 1, RFindBrace(respText))

\* the text truncated at its last closing brace and closed has a value: the
\* truncated text is a single object, or it becomes a value with a closing
\* bracket
ClosedHasValue ==
    /\ RFindBrace(respText) > 0
    /\ \/ ~json_loads(JsonStr(UpToLastBrace)).raised
       \/ ~json_loads(JsonStr(UpToLastBrace \o <<"]">>)).raised

\* that value: the single object wrapped in a list, or the closed array
ClosedValue ==
    IF ~json_loads(JsonStr(UpToLastBrace)).raised
    THEN <<"[">> \o json_loads(JsonStr(UpToLastBrace)).value \o <<"]">>
    ELSE json_loads(JsonStr(UpToLastBrace \o <<"]">>)).value

\* C24, second half: the repair of a text yields the value of the text
\* truncated at its last closing brace and closed
RepairIsTruncateAndClose ==
    (fixPc = "done" /\ ClosedHasValue) =>
        /\ ~json_loads(fixOut).raised
        /\ json_loads(fixOut).value = ClosedValue

EndsWithObject(v) ==
    IsList(v) /\ Len(v) >= 4 /\ v[Len(v) - 1] = "}" /\ v[Len(v)] = "]"

CurrentTasks == {t \in TaskIds : t[1] = scrapeCall /\ tasks[t].pc # "absent"}

\* C25: a failure local to one chunk is absorbed: when the LLM call or the
\* deduplication of one chunk of a call fails, the body of run still ends
\* with a return statement, and it returns True when another chunk of the
\* call yielded an entry.
C25_ChunkFailureAbsorbed ==
    (/\ scrapePc \in {"exit", "done"}
     /\ \E t \in CurrentTasks : tasks[t].pc = "failed") =>
        /\ scrapeReturn.exc = "none"
        /\ (\E t \in CurrentTasks : tasks[t].pc = "done" /\ tasks[t].entry # "")
              => scrapeReturn = Returned("True")

\* run r goes from the end of a dispatch back to the head of the loop: the
\* step is completed
StepCompleted(r) == pc[r] = "execute" /\ pc'[r] = "loop_head"

\* what the completed step of run r added to the history
Appended(r) == SubSeq(history'[r], Len(history[r]) + 1, Len(history'[r]))

\* the history only grows at its end: no entry is removed or changed
HistoryAppendOnly ==
    [][\A r \in Runs :
          /\ Len(history'[r]) >= Len(history[r])
          /\ SubSeq(history'[r], 1, Len(history[r])) = history[r]]_vars

\* C26: every plan step whose dispatch completes appends exactly one entry
\* to the history of the run, after the entries of the earlier steps, which
\* are left as they are; the length of the history is the number of
\* completed steps.
C26_OneEntryPerStep ==
    [][\A r \in Runs :
          /\ SubSeq(history'[r], 1, Len(history[r])) = history[r]
          /\ StepCompleted(r) =>
                (Len(history'[r]) = Len(history[r]) + 1 /\ Len(history'[r]) = steps[r])]_vars

\* C27: the entry recorded for a completed step holds the url of the page
\* and the mapping from the canonical key of each dispatched descriptor to
\* its result.
C27_EntryHoldsMapping ==
    [][\A r \in Runs :
          StepCompleted(r) =>
              LET mapped == map_actions_to_results(actions[r], results[r])
              IN  \E i \in DOMAIN Appended(r) :
                     /\ Appended(r)[i].locationURL = url[r]
                     /\ Appended(r)[i].action_mapped_results.type = "dict"
                     /\ Appended(r)[i].action_mapped_results.v =
                           [keys |-> mapped.keys, value |-> mapped.value]]_vars

\* what the code records: one entry for each distinct key of the step, with
\* the url and the key, and no result
EntriesHoldKeysOnly ==
    [][\A r \in Runs :
          StepCompleted(r) =>
              LET mapped == map_actions_to_results(actions[r], results[r])
              IN  /\ Len(Appended(r)) = Len(mapped.keys)
                  /\ \A i \in DOMAIN Appended(r) :
                        Appended(r)[i] =
                            [locationURL |-> url[r],
                             action_mapped_results |-> PyStr(mapped.keys[i])]]_vars

\* process_chunk has been entered for the task
Started(t) == tasks[t].pc \in InFlightPcs \cup {"done", "failed"}

\* C28: every chunk task receives as context the chunks at the positions
\* before and after its own in the list of chunks the call made before any
\* task started, and none at the ends of the list, whatever the order in
\* which the tasks start and complete.
C28_StaticNeighbours ==
    \A t \in TaskIds :
        Started(t) =>
            /\ tasks[t].prev = (IF t[2] = 1 THEN NoChunk ELSE t[2] - 1)
            /\ tasks[t].next =
                  (IF t[2] = scrapeCalls[t[1]].chunks THEN NoChunk ELSE t[2] + 1)

\* C28: of three chunks the last is done before the first has started, and
\* the middle one, in flight, has the first and the last as its context;
\* the last had no next chunk
C28_Witness ==
    /\ scrapeCalls[1].chunks = 3
    /\ tasks[<<1, 1>>].pc = "waiting"
    /\ tasks[<<1, 3>>].pc = "done" /\ tasks[<<1, 3>>].next = NoChunk
    /\ tasks[<<1, 3>>].prev = 2
    /\ tasks[<<1, 2>>].pc = "llm"
    /\ tasks[<<1, 2>>].prev = 1 /\ tasks[<<1, 2>>].next = 3

\* run r was started by a request without max_steps: agent_endpoint passes
\* max_steps=None
WithoutMaxSteps(r) == max_steps[r].isNone

\* C29: a request with start_url and model but without max_steps runs the
\* agent under a step budget and yields a result of status and steps_ran:
\* once the browser session of such a run has started, the run ends by
\* returning the record.
C29_RunsWithoutMaxSteps ==
    \A r \in Runs :
        (WithoutMaxSteps(r) /\ Finished(r) /\ lastAttempt[r] = "ok") =>
            /\ result[r].kind = "returned"
            /\ result[r].status = "complete"

\* a run without max_steps never enters the loop and never returns a record
NoneBudgetNeverIterates ==
    \A r \in Runs :
        WithoutMaxSteps(r) =>
            /\ steps[r] = 0
            /\ Finished(r) => result[r].kind # "returned"

\* the handles and the calls made on them
Handles == <<lcPlaywright, lcBrowser, lcInstance, lcCloses, lcStops>>

Gathered ==
    /\ scrapeCall > 0
    /\ scrapePc \in {"exit", "done"}
    /\ scrapeCalls[scrapeCall].recorded
    /\ scrapeReturn.exc = "none"

\* the chunks of the current call whose task yielded an entry
ChunksWithEntry == {i \in ChunkIds : tasks[<<scrapeCall, i>>].entry # ""}

\* C31: the flattened entry list is built only after every chunk task of
\* the call has completed, and it is the concatenation of the result lists
\* of the chunks in the order of the chunk indices, whatever the order in
\* which the tasks completed.
C31_FlattenedInChunkOrder ==
    /\ \A c \in CallIds :
          scrapeCalls[c].entries # <<>> =>
              \A i \in 1..scrapeCalls[c].chunks : tasks[<<c, i>>].pc = "done"
    /\ Gathered =>
          LET entries == scrapeCalls[scrapeCall].entries
          IN  /\ {entries[k].chunk : k \in DOMAIN entries} = ChunksWithEntry
              /\ \A k \in DOMAIN entries :
                    entries[k].entry = tasks[<<scrapeCall, entries[k].chunk>>].entry
              /\ \A j, k \in DOMAIN entries :
                    j < k => entries[j].chunk < entries[k].chunk

\* C31: the three chunks of a page yielded an entry each and the list holds
\* them in the order of the chunks
C31_Witness ==
    /\ Gathered
    /\ scrapeCalls[scrapeCall].chunks = 3
    /\ Len(scrapeCalls[scrapeCall].entries) = 3
    /\ scrapeCalls[scrapeCall].entries[1].chunk = 1
    /\ scrapeCalls[scrapeCall].entries[3].chunk = 3

\* the sum of the values of a function with a finite domain
RECURSIVE SumOf(_, _)
SumOf(f, S) ==
    IF S = {} THEN 0
    ELSE LET x == CHOOSE y \in S : TRUE IN f[x] + SumOf(f, S \ {x})

\* the corpus writes made by the calls of run so far
WritesMade == SumOf([c \in CallIds |-> scrapeCalls[c].writes], CallIds)
\* the calls of run that inserted their session record
SessionsRecorded == Cardinality({c \in CallIds : scrapeCalls[c].recorded})

\* C32: the persisted stores are append-only: every document a call has
\* inserted into the session store or into the corpus is still there (the
\* stores hold as many documents as were inserted), and no step of a call
\* lowers the number of documents under a key of either store.
C32_StoresAppendOnly ==
    /\ [](/\ SumOf(corpus, Facts) = WritesMade
          /\ SumOf(sessionStore, Hashes) = SessionsRecorded)
    /\ [][/\ \A h \in Hashes : sessionStore'[h] >= sessionStore[h]
          /\ \A f \in Facts : corpus'[f] >= corpus[f]]_vars

\* C32: two calls recorded their sessions and the corpus has the two
\* documents that two tasks inserted
C32_Witness ==
    /\ SessionsRecorded = 2
    /\ SumOf(sessionStore, Hashes) = 2
    /\ WritesMade = 2
    /\ SumOf(corpus, Facts) = 2

\* a == b for two dicts of params, and for two descriptors: dict equality
\* compares the keys and the values, a number by its value (15000 == 15000.0)
ParamsEqual(p, q) ==
    /\ DOMAIN p = DOMAIN q
    /\ \A k \in DOMAIN p :
          IF k \in NumberFields THEN p[k].n = q[k].n ELSE p[k] = q[k]
EqualAsMappings(a, b) ==
    /\ DOMAIN a = DOMAIN b
    /\ \A k \in DOMAIN a :
          IF k = "params" THEN ParamsEqual(a[k], b[k]) ELSE a[k] = b[k]

\* equal as mappings, with every number of the same type in both
SameFieldsAndTypes(a, b) ==
    /\ EqualAsMappings(a, b)
    /\ "params" \in DOMAIN a =>
          \A k \in DOMAIN a.params \cap NumberFields :
              a.params[k].type = b.params[k].type

\* the call of map_actions_to_results returned or raised
KeyReturned == keyPc = "returned"
\* the value the returned dict holds under the key of the i-th descriptor
ValueAtKeyOf(i) ==
    keyOut.value[CHOOSE n \in DOMAIN keyOut.keys :
                    keyOut.keys[n] = action_key_str(KeyActions[i].v)]

\* what the call does with the descriptors that Same(a, b) takes for the same
KeyedBy(Same(_, _)) ==
    KeyReturned =>
        /\ keyOut.raised <=> Len(keyBatch) # Len(keyResults)
        /\ ~keyOut.raised =>
              /\ \A i, j \in DOMAIN keyBatch :
                    action_key_str(KeyActions[i].v) = action_key_str(KeyActions[j].v)
                        <=> Same(KeyActions[i].v, KeyActions[j].v)
              /\ \A i \in DOMAIN keyBatch :
                    /\ Cardinality({n \in DOMAIN keyOut.keys :
                           keyOut.keys[n] = action_key_str(KeyActions[i].v)}) = 1
                    /\ \E j \in DOMAIN keyBatch :
                          /\ Same(KeyActions[i].v, KeyActions[j].v)
                          /\ \A k \in DOMAIN keyBatch :
                                Same(KeyActions[i].v, KeyActions[k].v) => k <= j
                          /\ ValueAtKeyOf(i) = keyResults[j]
              /\ \A n \in DOMAIN keyOut.keys :
                    \E i \in DOMAIN keyBatch :
                        keyOut.keys[n] = action_key_str(KeyActions[i].v)

\* C33 as stated: two descriptors get the same key exactly when they are
\* equal as mappings, whatever the order of their fields; the dict has one
\* key per distinct descriptor, holding the result of the last of the equal
\* descriptors; a length mismatch raises ValueError.
C33_KeyedByMappingEquality == KeyedBy(EqualAsMappings)

\* C33: two descriptors get the same key exactly when they have the same
\* fields with equal values whose numbers are of the same type (15000 and
\* 15000.0 are equal values with different keys), whatever the order in
\* which the fields were written; the dict has one key per such descriptor,
\* holding the result of the last of them; a length mismatch raises
\* ValueError.
C33_KeyedByJsonText == KeyedBy(SameFieldsAndTypes)

\* C33: the same wait written twice, with its fields in different orders,
\* collapsed onto one key that holds the second result
C33_Witness ==
    /\ KeyReturned
    /\ Len(keyBatch) = 2
    /\ keyBatch[1] # keyBatch[2]
    /\ DictOf(keyBatch[1]) = DictOf(keyBatch[2])
    /\ keyResults = <<"True", "False">>
    /\ ~keyOut.raised
    /\ Len(keyOut.keys) = 1
    /\ keyOut.value = <<"False">>

\* C33: a wait with timeout 15000 and the same wait with 15000.0
C33_IntAndFloat ==
    /\ KeyReturned
    /\ Len(keyBatch) = 2
    /\ Len(keyResults) = 2
    /\ EqualAsMappings(KeyActions[1].v, KeyActions[2].v)
    /\ Len(keyOut.keys) = 2

\* C33: two descriptors and one result
C33_LengthMismatch ==
    /\ KeyReturned
    /\ Len(keyBatch) = 2
    /\ Len(keyResults) = 1
    /\ keyOut.raised

\* the i-th invocation of run r was scrape_and_store.run and every
\* collaborator of it succeeded: its body reached its return statement
ScrapeBodyReturned(r, i) ==
    /\ calls[r][i].name = "scrape_and_store"
    /\ calls[r][i].body \in {"True", "False"}

\* C34: when every collaborator succeeds, a scrape_and_store action
\* dispatched through execute has the boolean computed by run as its result,
\* not None: leaving the VectorStoreManager context raises nothing.
C34_ScrapeResultIsBoolean ==
    \A r \in Runs :
        \A i \in DOMAIN calls[r] :
            (ScrapeBodyReturned(r, i) /\ i \in DOMAIN results[r]) =>
                /\ calls[r][i].outcome.exc = "none"
                /\ results[r][i] = calls[r][i].body

\* every scrape_and_store action has the result None, whatever its body did
ScrapeResultAlwaysNone ==
    \A r \in Runs :
        \A i \in DOMAIN calls[r] :
            (calls[r][i].name = "scrape_and_store" /\ i \in DOMAIN results[r]) =>
                /\ calls[r][i].outcome = Raised("TypeError")
                /\ results[r][i] = None

\* an earlier call of run passed the session check for the pair of call c and
\* inserted its session record
SeenBefore(c) ==
    \E b \in CallIds :
        /\ b < c
        /\ scrapeCalls[b].recorded
        /\ scrapeCalls[b].hash = scrapeCalls[c].hash

\* C35: the session record is inserted before any chunk is extracted and is
\* never removed: a call for a pair that an earlier call has recorded
\* returns False and makes no LLM request and no corpus write, also when the
\* earlier call failed during extraction.
C35_SeenPairReturnsFalse ==
    /\ \A t \in TaskIds : tasks[t].pc # "absent" => scrapeCalls[t[1]].recorded
    /\ \A c \in CallIds :
          scrapeCalls[c].recorded => sessionStore[scrapeCalls[c].hash] > 0
    /\ (BodyReturned /\ SeenBefore(scrapeCall)) =>
          /\ scrapeCalls[scrapeCall].result = Returned("False")
          /\ scrapeCalls[scrapeCall].llm = 0
          /\ scrapeCalls[scrapeCall].writes = 0

\* what the body of a call for a recorded pair does: its return statement
\* yields False, and it records nothing, extracts no chunk and writes nothing
SeenPairIsSkipped ==
    /\ \A t \in TaskIds : tasks[t].pc # "absent" => scrapeCalls[t[1]].recorded
    /\ \A c \in CallIds :
          scrapeCalls[c].recorded => sessionStore[scrapeCalls[c].hash] > 0
    /\ \A c \in CallIds :
          (c <= scrapeCall /\ SeenBefore(c)) =>
              /\ ~scrapeCalls[c].recorded
              /\ scrapeCalls[c].llm = 0
              /\ scrapeCalls[c].writes = 0
              /\ \A t \in TaskIds : t[1] = c => tasks[t].pc = "absent"
    /\ (BodyReturned /\ SeenBefore(scrapeCall)) =>
          /\ scrapeReturn = Returned("False")
          /\ scrapeCalls[scrapeCall].result = Raised("TypeError")

\* a call for a pair whose first call failed during extraction ended
SecondCallAfterFailedFirst ==
    /\ scrapeCall = 2
    /\ BodyReturned
    /\ SeenBefore(2)
    /\ scrapeCalls[1].writes = 0
    /\ \E t \in TaskIds : t[1] = 1 /\ tasks[t].pc = "failed"

\* C36: run_agent never raises: every failure, the failure to construct the
\* LLM gateway or the browser session included, is caught and reported
\* through the value run_agent returns.
C36_NeverRaises ==
    \A r \in Runs : Finished(r) => result[r].kind # "raised"

\* an exception leaves run_agent exactly when the failure came before bm was
\* bound, in the constructor of LLMManager or of BrowserManager
RaisesIffUnbound ==
    \A r \in Runs :
        Finished(r) =>
            (result[r].kind = "raised"
                <=> (exitCause[r] = "outer_error" /\ ~bmBound[r]))

\* the larger of the step budget and 0
BudgetOrZero(r) == IF max_steps[r].n > 0 THEN max_steps[r].n ELSE 0

\* run r returned its record
ReturnedRecord(r) == Finished(r) /\ result[r].kind = "returned"

\* the steps that begin a sensing phase are the steps that add one to steps,
\* and steps changes in no other way
CountsIterationsStarted ==
    \A r \in Runs :
        /\ steps'[r] \in {steps[r], steps[r] + 1}
        /\ steps'[r] = steps[r] + 1 <=> (pc[r] # "sense" /\ pc'[r] = "sense")

\* C37 as stated: steps_ran is the number of loop iterations started, the
\* one that ended with an empty plan or a failed dispatch included; it lies
\* between 0 and max_steps, and is 0 only when max_steps <= 0.
C37_StepsRanWithinBudget ==
    /\ [](\A r \in Runs : ReturnedRecord(r) =>
            /\ result[r].steps_ran = steps[r]
            /\ 0 <= result[r].steps_ran
            /\ result[r].steps_ran <= max_steps[r].n
            /\ result[r].steps_ran = 0 => max_steps[r].n <= 0)
    /\ [][CountsIterationsStarted]_vars

\* C37: steps_ran is the number of loop iterations started, the one that
\* ended with an empty plan or a failed dispatch included; it lies between 0
\* and max_steps, or is 0 when max_steps is negative, and it is 0 only when
\* max_steps <= 0.
C37_StepsRanIsIterationsStarted ==
    /\ [](\A r \in Runs : ReturnedRecord(r) =>
            /\ result[r].steps_ran = steps[r]
            /\ 0 <= result[r].steps_ran
            /\ result[r].steps_ran <= BudgetOrZero(r)
            /\ result[r].steps_ran = 0 => max_steps[r].n <= 0)
    /\ [][CountsIterationsStarted]_vars

\* C37: the second iteration ended with an empty plan and is counted
C37_Witness ==
    /\ ReturnedRecord("A")
    /\ exitCause["A"] = "empty_plan"
    /\ plan["A"].step = 2
    /\ result["A"].steps_ran = 2

\* C37: a run with a negative budget returned its record
C37_NegativeBudget ==
    /\ ReturnedRecord("A")
    /\ max_steps["A"].n < 0
    /\ result["A"].steps_ran = 0

\* the i-th invocation of run r names an action that is not in the dispatch
\* table, or one whose module does not exist
NotInTable(r, i) == calls[r][i].name \notin ActionTable
ModuleMissing(r, i) ==
    calls[r][i].name \in ActionTable /\ calls[r][i].name \notin ModulesPresent

\* C38: an action whose name is not in the dispatch table (extract_html), or
\* whose handler module cannot be loaded (handle_dialog), gets the result
\* None, for that action only: no handler is entered for it, execute does
\* not raise, and the remaining actions of the batch are still run.
C38_UnknownActionIsNone ==
    \A r \in Runs :
        \A i \in DOMAIN calls[r] :
            (NotInTable(r, i) \/ ModuleMissing(r, i)) =>
                /\ NotInTable(r, i) => calls[r][i].outcome = Raised("KeyError")
                /\ ModuleMissing(r, i)
                      => calls[r][i].outcome = Raised("ModuleNotFoundError")
                /\ ~calls[r][i].entered
                /\ i \in DOMAIN results[r]
                /\ results[r][i] = None
                /\ \A j \in DOMAIN calls[r] :
                      calls[r][j].outcome.exc = "none"
                          => (j \in DOMAIN results[r]
                              /\ results[r][j] = calls[r][j].outcome.value)
                /\ AllMappings(actions[r]) =>
                      /\ pc[r] = "execute" => idx[r] = Len(calls[r]) + 1
                      /\ pc[r] # "execute" => Len(calls[r]) = Len(actions[r])

\* C38: extract_html and handle_dialog failed and the click after them ran
C38_Witness ==
    /\ ExecuteReturned("A")
    /\ Len(calls["A"]) = 3
    /\ calls["A"][1].name = "extract_html"
    /\ calls["A"][2].name = "handle_dialog"
    /\ calls["A"][3].name = "click"
    /\ calls["A"][3].entered
    /\ results["A"] = <<None, None, "True">>

\* the position of the first element of the batch that is not a mapping
FirstNonMapping(acts) ==
    CHOOSE i \in DOMAIN acts :
        ~IsMapping(acts[i]) /\ \A j \in 1..(i - 1) : IsMapping(acts[j])

\* execute of run r came to an element that is not a mapping
HitNonMapping(r) == pc[r] # "execute" /\ ~AllMappings(actions[r])

\* C39: execute raises when an element of the action list is not a mapping:
\* no result is recorded for it, the actions after it are not executed, no
\* history entry is appended for the step, and run_agent stops the loop,
\* releases the browser and returns status "complete".
C39_NonMappingStopsTheRun ==
    /\ [](\A r \in Runs : (pc[r] = "execute" /\ ~AllMappings(actions[r])) =>
            idx[r] <= FirstNonMapping(actions[r]))
    /\ [](\A r \in Runs : HitNonMapping(r) =>
            /\ pc[r] \in {"exit_normal", "done"}
            /\ exitCause[r] = "dispatch_error"
            /\ Len(calls[r]) = FirstNonMapping(actions[r]) - 1
            /\ Len(results[r]) = FirstNonMapping(actions[r]) - 1
            /\ Finished(r) =>
                  /\ result[r] = Complete(steps[r])
                  /\ browser[r] = None /\ playwright[r] = None
                  /\ lastBmOp[r] = "exit")
    /\ [][\A r \in Runs :
            ~AllMappings(actions'[r]) => history'[r] = history[r]]_vars

\* C39: the batch [click, 42, wait]: the click ran, the wait did not, and the
\* run returned
C39_Witness ==
    /\ Finished("A")
    /\ Len(actions["A"]) = 3
    /\ ~IsMapping(actions["A"][2])
    /\ Len(calls["A"]) = 1
    /\ calls["A"][1].name = "click"
    /\ result["A"].kind = "returned"
    /\ result["A"].status = "complete"
    /\ history["A"] = <<>>

\* the tasks of call c, those that hold a slot and those that wait for one
TasksOf(c) == {t \in TaskIds : t[1] = c /\ tasks[t].pc # "absent"}
HoldingSlot(c) == {t \in TasksOf(c) : tasks[t].pc \in InFlightPcs}
WaitingFor(c) == {t \in TasksOf(c) : tasks[t].pc = "waiting"}

\* the steps a task has still to take, at most
TaskWeight(t) ==
    CASE tasks[t].pc = "waiting" -> 4
      [] tasks[t].pc = "llm" -> 3
      [] tasks[t].pc = "search" -> 2
      [] tasks[t].pc = "insert" -> 1
      [] OTHER -> 0
\* the statements run has still to pass
CallWeight ==
    CASE scrapePc = "idle" -> 5
      [] scrapePc = "lookup" -> 4
      [] scrapePc = "record" -> 3
      [] scrapePc = "gather" -> 2
      [] scrapePc = "exit" -> 1
      [] OTHER -> 0
RECURSIVE WeightOf(_)
WeightOf(S) ==
    IF S = {} THEN 0
    ELSE LET t == CHOOSE x \in S : TRUE IN TaskWeight(t) + WeightOf(S \ {t})
\* a bound on the steps the call and its tasks can still take
ScrapeVariant == CallWeight * (4 * MaxChunks + 1) + WeightOf(TaskIds)

\* the call or one of its tasks can take a step
ScrapeCanStep ==
    \/ scrapePc \in {"idle", "lookup", "record", "exit"}
    \/ /\ scrapePc = "gather"
       /\ \/ \E t \in TasksOf(scrapeCall) : tasks[t].pc = "failed"
          \/ \A t \in TasksOf(scrapeCall) : tasks[t].pc = "done"
    \/ \E t \in TaskIds : tasks[t].pc \in InFlightPcs
    \/ \E t \in TaskIds : tasks[t].pc = "waiting" /\ CanAcquire(semaphore[t[1]])
\* the call has ended and none of its tasks is left to run
ScrapeAllOver ==
    /\ scrapePc = "done"
    /\ \A t \in TaskIds : tasks[t].pc \in {"absent", "done", "failed"}

\* C40: the semaphore of 2 slots never blocks the extraction for ever, every
\* LLM and database call returning or raising: the slots taken are those of
\* the tasks inside process_chunk, a task that finishes or raises gives its
\* slot back, each chunk is handed to process_chunk once, a call that has not
\* ended can always take a step, and a bound on the remaining steps falls
\* with every step, so that run ends for any number of chunks.
C40_SemaphoreNeverBlocks ==
    /\ [](\A c \in CallIds : scrapeCalls[c].recorded =>
            /\ semaphore[c] >= 0
            /\ semaphore[c] + Cardinality(HoldingSlot(c)) = SemaphoreSlots
            /\ Cardinality(TasksOf(c)) = scrapeCalls[c].chunks
            /\ scrapeCalls[c].llm
                  = Cardinality(TasksOf(c)) - Cardinality(WaitingFor(c)))
    /\ [](ScrapeVariant >= 0 /\ (ScrapeAllOver \/ ScrapeCanStep))
    /\ [][/\ ScrapeVariant' < ScrapeVariant
          /\ \A t \in TaskIds :
                /\ (tasks'[t].pc = "llm" /\ tasks[t].pc # "llm")
                      => tasks[t].pc = "waiting"
                /\ (tasks'[t].pc = "waiting" /\ tasks[t].pc # "waiting")
                      => tasks[t].pc = "absent"]_vars

\* C40: a call with more chunks than slots ended after every chunk was
\* handed to process_chunk once, one of them having raised
C40_Witness ==
    /\ ScrapeAllOver
    /\ scrapeCalls[1].chunks = MaxChunks
    /\ scrapeCalls[1].llm = MaxChunks
    /\ \E t \in TasksOf(1) : tasks[t].pc = "failed"
    /\ semaphore[1] = SemaphoreSlots

====
